---- MODULE Spec2Model ----
(***************************************************************************)
(* A model of rust-rm (src/src/main.rs): the entry resolver (fs::open),    *)
(* the transformer pipeline (mod transform), the walkers (walk::given and  *)
(* walk::recurse), the removers (mod rm) and the driver (cli::run).        *)
(*                                                                         *)
(* The lazy iterator chain of cli::run is modelled as a machine with a     *)
(* stack of directory frames: every pull of the chain is a sequence of     *)
(* Visit / Answer / Expand / Emit steps.                                   *)
(***************************************************************************)
EXTENDS Integers, Sequences, FiniteSets, TLC

\* ------------------------------------------------------------------ bounds
\* The longest operand list given on the command line.
MaxOperands == 2

\* How many changes others make to the file system during a run.
MaxExt == 1

\* --------------------------------------------------------------- constants
NoneStr == "<none>"

TIP_IS_DIR == "use '--dir' to remove"
TIP_DIR_NOT_EMPTY == "use '--recursive' to remove"
TIP_NOT_FOUND == "use '--blind' to ignore"
SKIP_REASON_NOT_FOUND == "Not found"
SKIP_REASON_ANSWER_NO == "Kept by user"
SKIP_REASON_ANSWER_UNKNOWN == "Unrecognized input"
SKIP_REASON_IO_ERROR == "I/O error"

EntryKind == {"Dir", "File", "Symlink"}
ErrorKind == {"DirectoryNotEmpty", "IsADirectory", "NotFound",
              "PermissionDenied", "Refused", "Unknown"}

\* ------------------------------------------------------------- file system
\* A file system object is named by the sequence of names leading to it
\* from the file system root, which is also the working directory.
RootNode == << >>

Nodes == { RootNode, <<"d">>, <<"d", "f">>, <<"d", "e">>, <<"d", "e", "g">>,
           <<"x">>, <<"h">>, <<"l">>, <<"m">> }

\* The file system the run starts on: a directory d holding a file f and a
\* directory e which holds a file g, an empty directory x, a file h, a
\* symbolic link l to d, and nothing at m.
InitFS ==
    [n \in Nodes |->
        CASE n = RootNode -> "Dir"
          [] n = <<"d">> -> "Dir"
          [] n = <<"d", "f">> -> "File"
          [] n = <<"d", "e">> -> "Dir"
          [] n = <<"d", "e", "g">> -> "File"
          [] n = <<"x">> -> "Dir"
          [] n = <<"h">> -> "File"
          [] n = <<"l">> -> "Symlink"
          [] OTHER -> "None"]

\* What the symbolic link l points to.
LinkTarget == <<"d">>

\* The regular files that hold no bytes.
EmptyFiles == { <<"h">> }

\* A smaller file system, for the runs that name the root: a directory d
\* holding a file f, and a file h.
RootFS ==
    [n \in Nodes |->
        IF n \in { RootNode, <<"d">>, <<"d", "f">>, <<"h">> } THEN InitFS[n] ELSE "None"]

\* The operands a command line may name.
Operands == { <<"d">>, <<"x">>, <<"h">>, <<"l">>, <<"m">> }

\* The operands that name the root or end in "." or ".."; the ones of
\* several components pass through directories only.
DangerousOperands ==
    { <<"/">>, <<".">>, <<"..">>, <<"/", ".">>, <<".", ".">>, <<"d", ".">>, <<"d", "..">>,
      <<"x", ".">> }

IsPrefix(s, t) == Len(s) <= Len(t) /\ SubSeq(t, 1, Len(s)) = s

Children(f, n) == { c \in Nodes : Len(c) = Len(n) + 1 /\ IsPrefix(n, c) /\ f[c] # "None" }

Descendants(f, n) == { c \in Nodes : Len(c) > Len(n) /\ IsPrefix(n, c) /\ f[c] # "None" }

\* The object a path names: the components of the path are followed from
\* the root ("/" first) or from the working directory, "." stays and ".."
\* goes up.
RECURSIVE Canon(_, _)
Canon(path, at) ==
    IF path = << >> THEN at
    ELSE LET c == Head(path) IN
         CASE c = "/" -> Canon(Tail(path), RootNode)
           [] c = "." -> Canon(Tail(path), at)
           [] c = ".." -> Canon(Tail(path), IF at = << >> THEN at ELSE SubSeq(at, 1, Len(at) - 1))
           [] OTHER -> Canon(Tail(path), Append(at, c))

Node(path) == Canon(path, RootNode)

\* metadata, which follows a symbolic link, in the place of
\* symlink_metadata.
metadata(f, path) ==
    LET n == Node(path) IN
    IF path = << >> \/ n \notin Nodes THEN "NotFound"
    ELSE IF f[n] = "None" THEN "NotFound"
    ELSE IF f[n] # "Symlink" THEN f[n]
    ELSE IF f[LinkTarget] = "None" THEN "NotFound" ELSE f[LinkTarget]

\* symlink_metadata: the kind of the object at the path, or the kind of
\* the io error.
symlink_metadata(f, path) ==
    LET n == Node(path) IN
    IF path = << >> \/ n \notin Nodes THEN "NotFound"
    ELSE IF f[n] = "None" THEN "NotFound" ELSE f[n]

\* std::fs::read_dir: the names in the directory, or the kind of the error.
read_dir(f, path) ==
    LET n == Node(path) IN
    IF path = << >> \/ n \notin Nodes \/ f[n] = "None" THEN [ok |-> FALSE, kind |-> "NotFound", content |-> {}]
    ELSE IF f[n] = "File" THEN [ok |-> FALSE, kind |-> "Unknown", content |-> {}]
    ELSE LET d == IF f[n] = "Symlink" THEN LinkTarget ELSE n IN
         IF f[d] # "Dir" THEN [ok |-> FALSE, kind |-> "NotFound", content |-> {}]
         ELSE [ok |-> TRUE, kind |-> NoneStr,
               content |-> { c[Len(c)] : c \in Children(f, d) }]

\* ------------------------------------------------------------ fs::Entry &c
Item(ok, kind, path, tip, skip, visited) ==
    [ok |-> ok, kind |-> kind, path |-> path, tip |-> tip,
     skip_reason |-> skip, visited |-> visited]

\* fs::open wrapped by walk::open: an Item holding the Entry or the Error.
open(f, path) ==
    LET k == symlink_metadata(f, path) IN
    Item(k \in EntryKind, k, path, NoneStr, NoneStr, FALSE)

into_visited(item) == [item EXCEPT !.visited = TRUE]

into_skipped(item, reason) == [item EXCEPT !.skip_reason = reason]

into_err(item, kind) == [item EXCEPT !.ok = FALSE, !.kind = kind, !.tip = NoneStr]

with_tip(item, tip) == [item EXCEPT !.tip = tip]

is_empty(f, item) ==
    CASE item.kind = "Dir" ->
            LET r == read_dir(f, item.path) IN (~r.ok) \/ r.content = {}
      [] item.kind = "File" ->
            LET k == symlink_metadata(f, item.path) IN
            (k \notin {"File"}) \/ Node(item.path) \in EmptyFiles
      [] OTHER -> TRUE

\* ------------------------------------------------------------ std::path
\* Path::components: "." is dropped everywhere but at the start of a
\* relative path.
RECURSIVE DropCurDir(_)
DropCurDir(path) ==
    IF path = << >> THEN << >>
    ELSE IF Head(path) = "." THEN DropCurDir(Tail(path))
    ELSE <<Head(path)>> \o DropCurDir(Tail(path))

Components(path) ==
    IF path = << >> THEN << >>
    ELSE <<Head(path)>> \o DropCurDir(Tail(path))

\* Path::ends_with for a path of one component.
ends_with(path, name) ==
    LET c == Components(path) IN c # << >> /\ c[Len(c)] = name

is_current_or_parent_dir(path) == ends_with(path, ".") \/ ends_with(path, "..")

\* is_root that takes only the empty path for one without a parent.
is_root_empty(path) == Components(path) = << >>

\* Path::parent is None for the empty path and for a path that ends in the
\* root.
is_root(path) ==
    LET c == Components(path) IN c = << >> \/ c[Len(c)] = "/"

\* -------------------------------------------------------------- transform
identity(item) == item

disallow_all_dirs(item) ==
    IF item.ok /\ item.kind = "Dir"
    THEN with_tip(into_err(item, "IsADirectory"), TIP_IS_DIR)
    ELSE item

disallow_current_and_parent_dir(item) ==
    IF item.ok /\ is_current_or_parent_dir(item.path)
    THEN into_err(item, "Refused")
    ELSE item

disallow_filled_dirs(f, item) ==
    IF item.ok /\ item.kind = "Dir" /\ ~is_empty(f, item)
    THEN with_tip(into_err(item, "DirectoryNotEmpty"), TIP_DIR_NOT_EMPTY)
    ELSE item

\* disallow_root that gives the tip of the directory admission.
disallow_root_tipped(item) ==
    IF item.ok /\ is_root(item.path)
    THEN with_tip(into_err(item, "Refused"), TIP_IS_DIR)
    ELSE item

disallow_root(item) ==
    IF item.ok /\ is_root(item.path)
    THEN into_err(item, "Refused")
    ELSE item

\* skip_not_found that lets the error through.
skip_not_found_asis(item) == item

skip_not_found(item) ==
    IF ~item.ok /\ item.kind = "NotFound"
    THEN into_skipped(item, SKIP_REASON_NOT_FOUND)
    ELSE item

\* tip_not_found that makes an entry of the error.
tip_not_found_revive(item) ==
    IF ~item.ok /\ item.kind = "NotFound"
    THEN [item EXCEPT !.ok = TRUE, !.kind = "File"]
    ELSE item

\* tip_not_found that adds no tip.
tip_not_found_asis(item) == item

tip_not_found(item) ==
    IF ~item.ok /\ item.kind = "NotFound"
    THEN with_tip(item, TIP_NOT_FOUND)
    ELSE item

\* new_prompt_for that takes a visited directory for one that is not empty.
new_prompt_for_visited(f, entry, visited) ==
    CASE entry.kind = "Dir" ->
            IF visited THEN "Remove directory"
            ELSE IF is_empty(f, entry) THEN "Remove empty directory"
            ELSE "Descend into directory"
      [] entry.kind = "File" -> "Remove regular file"
      [] OTHER -> "Remove symbolic link"

\* The question of transform::new_prompt_for (the path follows it).
new_prompt_for(f, entry, visited) ==
    IF entry.kind = "Dir"
    THEN IF is_empty(f, entry) THEN "Remove empty directory"
         ELSE IF visited THEN "Remove directory"
         ELSE "Descend into directory"
    ELSE IF entry.kind = "File" THEN "Remove regular file"
    ELSE "Remove symbolic link"

\* Text is a sequence of characters.
Whitespace == {" ", "\n", "\t"}

RECURSIVE TrimStart(_)
TrimStart(s) ==
    IF s # << >> /\ Head(s) \in Whitespace THEN TrimStart(Tail(s)) ELSE s

RECURSIVE TrimEnd(_)
TrimEnd(s) ==
    IF s # << >> /\ s[Len(s)] \in Whitespace THEN TrimEnd(SubSeq(s, 1, Len(s) - 1)) ELSE s

\* trim that leaves the end of the text alone.
trim_start_only(s) == TrimStart(s)

trim(s) == TrimEnd(TrimStart(s))

LowerOf(c) ==
    CASE c = "Y" -> "y" [] c = "E" -> "e" [] c = "S" -> "s"
      [] c = "N" -> "n" [] c = "O" -> "o" [] c = "Q" -> "q"
      [] OTHER -> c

\* to_lowercase that leaves the text alone.
to_lowercase_asis(s) == s

to_lowercase(s) == [i \in 1..Len(s) |-> LowerOf(s[i])]

\* What one call of transform::prompt meets: a failing write of the
\* question, a failing read, a failing write of the line clearing, or a
\* line of input (nothing at the end of the input).
Lines ==
    { <<"y", "\n">>, <<" ", "Y", "e", "S", "\n">>, <<"Y">>,
      <<"n", "\n">>, <<"\t", "N", "O", " ", "\n">>,
      <<"\n">>, << >>, <<"q", "\n">>, <<"n", " ", "o", "\n">> }

Responses ==
    [io : {"ok"}, line : Lines] \cup [io : {"write_err", "read_err", "clear_err"}, line : {<< >>}]

\* transform::prompt: the trimmed line, unless the reader or the writer
\* failed.
prompt(r) == [ok |-> r.io = "ok", answer |-> trim(r.line)]

\* interact_transform that takes an empty answer for the default the hint
\* "[Y/n]" suggests, a yes.
interact_transform_default(response, item) ==
    IF response.ok
    THEN LET a == to_lowercase(response.answer) IN
         CASE a = <<"y">> \/ a = <<"y", "e", "s">> \/ a = << >> -> item
           [] a = <<"n">> \/ a = <<"n", "o">> -> into_skipped(item, SKIP_REASON_ANSWER_NO)
           [] OTHER -> into_skipped(item, SKIP_REASON_ANSWER_UNKNOWN)
    ELSE into_skipped(item, SKIP_REASON_IO_ERROR)

interact_transform(response, item) ==
    IF response.ok
    THEN LET a == to_lowercase(response.answer) IN
         CASE a = <<"y">> \/ a = <<"y", "e", "s">> -> item
           [] a = <<"n">> \/ a = <<"n", "o">> -> into_skipped(item, SKIP_REASON_ANSWER_NO)
           [] OTHER -> into_skipped(item, SKIP_REASON_ANSWER_UNKNOWN)
    ELSE into_skipped(item, SKIP_REASON_IO_ERROR)

\* --------------------------------------------------------------------- rm
RmResult(ok, kind, f) == [ok |-> ok, kind |-> kind, fs |-> f]

Exists(f, path) == path # << >> /\ Node(path) \in Nodes /\ f[Node(path)] # "None"

\* remove_dir removing a directory together with what it holds.
remove_dir_all(f, path) ==
    LET n == Node(path) IN
    IF ~Exists(f, path) THEN RmResult(FALSE, "NotFound", f)
    ELSE IF f[n] # "Dir" THEN RmResult(FALSE, "Unknown", f)
    ELSE RmResult(TRUE, NoneStr, [m \in Nodes |-> IF IsPrefix(n, m) THEN "None" ELSE f[m]])

\* std::fs::remove_dir: rmdir(2) on the kinds of object the model knows;
\* a path whose last component is "." is an invalid argument, which
\* fs::ErrorKind has no name for. Failures that do not come from the path
\* or from the shape of the tree (permissions, a directory in use) are not
\* part of the model.
remove_dir(f, path) ==
    LET n == Node(path) IN
    IF ~Exists(f, path) THEN RmResult(FALSE, "NotFound", f)
    ELSE IF f[n] # "Dir" \/ path[Len(path)] = "." THEN RmResult(FALSE, "Unknown", f)
    ELSE IF Children(f, n) # {} THEN RmResult(FALSE, "DirectoryNotEmpty", f)
    ELSE RmResult(TRUE, NoneStr, [f EXCEPT ![n] = "None"])

\* std::fs::remove_file: unlink(2).
remove_file(f, path) ==
    LET n == Node(path) IN
    IF ~Exists(f, path) THEN RmResult(FALSE, "NotFound", f)
    ELSE IF f[n] = "Dir" THEN RmResult(FALSE, "Unknown", f)
    ELSE RmResult(TRUE, NoneStr, [f EXCEPT ![n] = "None"])

\* remove that follows a symbolic link and removes what it points to.
remove_follow(f, entry) ==
    IF entry.kind = "Dir" THEN remove_dir(f, entry.path)
    ELSE IF entry.kind = "Symlink" THEN remove_dir_all(f, LinkTarget)
    ELSE remove_file(f, entry.path)

remove(f, entry) ==
    IF entry.kind = "Dir" THEN remove_dir(f, entry.path) ELSE remove_file(f, entry.path)

\* trash::delete moves the object and all below it to the trash.
dispose(f, entry) ==
    LET n == Node(entry.path) IN
    IF ~Exists(f, entry.path) THEN RmResult(FALSE, "NotFound", f)
    ELSE IF n = RootNode THEN RmResult(FALSE, "Refused", f)
    ELSE RmResult(TRUE, NoneStr, [m \in Nodes |-> IF IsPrefix(n, m) THEN "None" ELSE f[m]])

\* show_remove that tries what remove_dir would say of a directory.
show_remove_strict(f, entry) ==
    IF entry.kind = "Dir" /\ Children(f, Node(entry.path)) # {}
    THEN RmResult(FALSE, "DirectoryNotEmpty", f)
    ELSE RmResult(TRUE, NoneStr, f)

show_remove(f, entry) == RmResult(TRUE, NoneStr, f)

show_dispose(f, entry) == RmResult(TRUE, NoneStr, f)

\* ---------------------------------------------------------------- cli::run
\* The options a command line may give.
CommandLines ==
    [blind : BOOLEAN, dir : BOOLEAN, force : BOOLEAN, interactive : BOOLEAN,
     no_preserve_root : BOOLEAN, quiet : BOOLEAN, recursive : BOOLEAN,
     trash : BOOLEAN, verbose : BOOLEAN]

\* try_parse_from that knows only the group "method".
try_parse_from_nodirs(a) == ~(a.force /\ a.interactive) /\ ~(a.quiet /\ a.verbose)

\* Args::try_parse_from succeeds: dir and recursive exclude each other
\* (group "dirs"), and so do force and interactive (group "method") and
\* quiet and verbose (group "verbosity").
try_parse_from(a) ==
    ~(a.dir /\ a.recursive) /\ ~(a.force /\ a.interactive) /\ ~(a.quiet /\ a.verbose)

\* cli::Args as clap hands it over.
Args == { a \in CommandLines : try_parse_from(a) }

\* cli::Vars: what parse_vars found in the environment.
Vars == [debug : BOOLEAN, gnu_mode : BOOLEAN]

\* parse_args_gnu_mode leaving --quiet as it was given.
parse_args_gnu_mode_asgiven(a) ==
    IF ~a.force /\ (a.blind \/ a.quiet \/ a.trash)
    THEN [ok |-> FALSE, args |-> a]
    ELSE [ok |-> TRUE,
          args |-> [a EXCEPT !.blind = a.force, !.force = ~a.interactive, !.trash = FALSE]]

\* parse_args_gnu_mode: without --force the options blind, quiet and trash
\* are usage errors (ok is FALSE); then the options are set as rm(1)
\* behaves.
parse_args_gnu_mode(a) ==
    IF ~a.force /\ (a.blind \/ a.quiet \/ a.trash)
    THEN [ok |-> FALSE, args |-> a]
    ELSE [ok |-> TRUE,
          args |-> [a EXCEPT !.blind = a.force, !.force = ~a.interactive,
                             !.quiet = TRUE, !.trash = FALSE]]

\* parse_args: the options of the command line a under the environment v.
parse_args(a, v) ==
    IF ~try_parse_from(a) THEN [ok |-> FALSE, args |-> a]
    ELSE LET g == IF v.gnu_mode THEN parse_args_gnu_mode(a) ELSE [ok |-> TRUE, args |-> a] IN
         IF ~g.ok THEN g
         ELSE [ok |-> TRUE,
               args |-> IF v.debug THEN [g.args EXCEPT !.verbose = TRUE] ELSE g.args]

RECURSIVE SeqsUpTo(_, _)
SeqsUpTo(S, n) ==
    IF n = 0 THEN { << >> }
    ELSE LET shorter == SeqsUpTo(S, n - 1) IN
         shorter \cup { Append(q, x) : q \in { r \in shorter : Len(r) = n - 1 }, x \in S }

dry_run(a) == ~a.force /\ ~a.interactive

\* The logging::Verbosity cli::run asks for.
Verbosity(a) ==
    IF a.quiet /\ ~dry_run(a) THEN "Quiet"
    ELSE IF a.verbose THEN "Verbose" ELSE "Normal"

\* logging::configure: the level filter set for a verbosity.
configure(verbosity) ==
    CASE verbosity = "Normal" -> "Info"
      [] verbosity = "Quiet" -> "Error"
      [] verbosity = "Verbose" -> "Trace"

\* Transformers that admit only empty directories under --recursive.
Transformers_recfilled(a) ==
    << "disallow_current_and_parent_dir",
       IF a.no_preserve_root THEN "identity" ELSE "disallow_root",
       IF a.blind THEN "skip_not_found" ELSE "tip_not_found",
       IF a.recursive \/ a.dir THEN "disallow_filled_dirs" ELSE "disallow_all_dirs",
       IF a.interactive THEN "interactive" ELSE "identity" >>

\* Transformers with the test of --dir the wrong way round.
Transformers_dirswap(a) ==
    << "disallow_current_and_parent_dir",
       IF a.no_preserve_root THEN "identity" ELSE "disallow_root",
       IF a.blind THEN "skip_not_found" ELSE "tip_not_found",
       IF a.recursive THEN "identity"
       ELSE IF a.dir THEN "disallow_all_dirs" ELSE "disallow_filled_dirs",
       IF a.interactive THEN "interactive" ELSE "identity" >>

\* The five transformers cli::run assembles, by name.
Transformers(a) ==
    << "disallow_current_and_parent_dir",
       IF a.no_preserve_root THEN "identity" ELSE "disallow_root",
       IF a.blind THEN "skip_not_found" ELSE "tip_not_found",
       IF a.recursive THEN "identity"
       ELSE IF a.dir THEN "disallow_filled_dirs" ELSE "disallow_all_dirs",
       IF a.interactive THEN "interactive" ELSE "identity" >>

\* test_visit::transform_fixed: every item becomes the same error.
transform_fixed(item) ==
    [item EXCEPT !.ok = FALSE, !.kind = "Unknown", !.path = <<"file">>, !.tip = NoneStr]

\* test_visit::transform_skip: every item becomes skipped.
transform_skip(item) == into_skipped(item, "some reason")

\* One transformer applied to an item. transform::interactive reads the
\* terminal and is the Answer step of the machine below.
Transform(name, f, item) ==
    CASE name = "disallow_current_and_parent_dir" -> disallow_current_and_parent_dir(item)
      [] name = "disallow_root" -> disallow_root(item)
      [] name = "skip_not_found" -> skip_not_found(item)
      [] name = "tip_not_found" -> tip_not_found(item)
      [] name = "disallow_filled_dirs" -> disallow_filled_dirs(f, item)
      [] name = "disallow_all_dirs" -> disallow_all_dirs(item)
      [] name = "transform_fixed" -> transform_fixed(item)
      [] name = "transform_skip" -> transform_skip(item)
      [] OTHER -> identity(item)

\* The fold of walk::visit over the transformers ts.
RECURSIVE Fold(_, _, _)
Fold(ts, f, item) ==
    IF ts = << >> THEN item
    ELSE Fold(Tail(ts), f, Transform(Head(ts), f, item))

\* Item::inner: the fs::Result an item holds.
Inner(item) == [ok |-> item.ok, kind |-> item.kind, path |-> item.path, tip |-> item.tip]

\* The Option visit returns.
None == [some |-> FALSE]

Some(inner) == [some |-> TRUE, inner |-> inner]

\* The trace! of visit for a skipped item, and no trace.
Skipped(path, reason) == [path |-> path, reason |-> reason]

NoTrace == [path |-> << >>, reason |-> NoneStr]

\* visit passing the item through the first four transformers only.
visit_four(ts, f, item) ==
    LET it == Fold(SubSeq(ts, 1, 4), f, item) IN
    IF it.skip_reason # NoneStr
    THEN [result |-> None, trace |-> Skipped(it.path, it.skip_reason)]
    ELSE [result |-> Some(Inner(it)), trace |-> NoTrace]

\* walk::visit: the item goes through all the transformers; a skipped
\* item is traced and gives None, any other gives what it holds.
visit(ts, f, item) ==
    LET it == Fold(ts, f, item) IN
    IF it.skip_reason # NoneStr
    THEN [result |-> None, trace |-> Skipped(it.path, it.skip_reason)]
    ELSE [result |-> Some(Inner(it)), trace |-> NoTrace]

\* Walk that descends whether --trash is given or not.
Walk_recurse(a) == IF a.recursive THEN "recurse" ELSE "given"

\* The walker cli::run selects.
Walk(a) == IF a.recursive /\ ~a.trash THEN "recurse" ELSE "given"

\* What the remover cli::run selects says of an entry it dealt with.
Message(a) ==
    CASE ~dry_run(a) /\ ~a.trash -> "Removed"
      [] ~dry_run(a) /\ a.trash -> "Moved to trash"
      [] dry_run(a) /\ ~a.trash -> "Would remove"
      [] OTHER -> "Would move to trash"

\* The remover selected without regard to dry_run.
Remover_force(a, f, entry) ==
    IF a.trash THEN dispose(f, entry) ELSE remove(f, entry)

\* The remover cli::run selects, applied to an entry.
Remover(a, f, entry) ==
    CASE ~dry_run(a) /\ ~a.trash -> remove(f, entry)
      [] ~dry_run(a) /\ a.trash -> dispose(f, entry)
      [] dry_run(a) /\ ~a.trash -> show_remove(f, entry)
      [] OTHER -> show_dispose(f, entry)

\* ------------------------------------------------------------ the machine
VARIABLES
    argv,      \* the options given on the command line
    env,       \* cli::Vars, what the environment asks for
    args,      \* cli::Args: argv until parse_args has made the options of it
    max_level, \* the level filter of the log crate, "Off" until configured
    ext,       \* how many more changes others make to the file system
    vis,       \* a call of walk::visit on its own: stages, item and result
    paths,     \* the operands the iterator over args.paths has yet to yield
    fs,        \* the file system
    stack,     \* the directories being descended into, innermost last
    pc,        \* "parse", "pull", "prompt", "expand", "emit" or "done"
    cur,       \* the item being visited or yielded
    removed,   \* the first counter of the fold of cli::run
    errored,   \* the second counter of the fold of cli::run
    exit,      \* the result of cli::run
    last,      \* the response the Answer step just read (recorded when
               \* kept.on)
    start,     \* the operand being walked, and the state its walk started in
    kept,      \* the objects the user answered no for (recorded when on): ever,
               \* and since the last operand that names them or a directory
               \* they lie in
    hist,      \* the outcomes of the run, and of the run before it on the
               \* same operands (recorded when on)
    log        \* what happened in the walk of the present operand

vars == <<argv, env, args, max_level, ext, vis, paths, fs, stack, pc, cur, removed, errored, exit,
          last, start, kept, hist, log>>

NoItem == Item(FALSE, NoneStr, << >>, NoneStr, NoneStr, FALSE)

NoResponse == [io |-> NoneStr, line |-> << >>]

\* Nothing recorded of the outcomes of a run.
NoRun == [out |-> << >>, listed |-> << >>, removed |-> 0, errored |-> 0, exit |-> NoneStr]

NoHist == [on |-> FALSE, again |-> FALSE, paths |-> << >>, fs |-> << >>,
           out |-> << >>, listed |-> << >>, before |-> NoRun]

\* What cli::run makes of the result the step handled, as its last event
\* in the log tells: the path, whether the remover succeeded, the kind of
\* the error and its tip, and whether the error is the remover's - a
\* failure of the operating system (os), or the trash refusing to take
\* the root (refusal; trash::Error::TargetedRoot).
Outcome(item, e) ==
    IF item.ok
    THEN [path |-> e.path, ok |-> e.res = "Ok",
          kind |-> IF e.res = "Ok" THEN NoneStr ELSE e.res,
          tip |-> IF e.res = "Ok" THEN NoneStr ELSE e.info,
          os |-> e.res \notin {"Ok", "Refused"},
          refusal |-> e.res = "Refused"]
    ELSE [path |-> e.path, ok |-> FALSE, kind |-> e.kind, tip |-> e.tip, os |-> FALSE,
          refusal |-> FALSE]

Ev(ev, item, res, info) ==
    [ev |-> ev, path |-> item.path, kind |-> item.kind, ok |-> item.ok, tip |-> item.tip,
     visited |-> item.visited, res |-> res, info |-> info]

\* No call of walk::visit on its own.
NoVisit == [pc |-> NoneStr]

Init ==
    /\ argv \in { a \in CommandLines : ~a.quiet /\ ~a.verbose }
    /\ env = [debug |-> FALSE, gnu_mode |-> FALSE]
    /\ args = argv
    /\ max_level = "Off"
    /\ ext = 0
    /\ vis = NoVisit
    /\ \/ /\ paths \in SeqsUpTo(Operands, MaxOperands)
          /\ ~argv.no_preserve_root   \* which changes nothing for these operands
          /\ fs = InitFS
       \/ /\ paths \in { <<p>> : p \in DangerousOperands }
          /\ fs = IF Node(paths[1]) = RootNode THEN RootFS ELSE InitFS
    /\ stack = << >>
    /\ pc = "parse"
    /\ cur = NoItem
    /\ removed = 0
    /\ errored = 0
    /\ exit = NoneStr
    /\ last = NoResponse
    /\ start = [path |-> << >>, fs |-> fs, removed |-> 0, errored |-> 0]
    /\ kept = [on |-> FALSE, ever |-> {}, live |-> {}]
    /\ hist = NoHist
    /\ log = << >>

\* EndVisit handing a skipped item on like any other.
EndVisit_noskip(item, sofar) ==
    /\ cur' = item
    /\ pc' = IF Walk(args) = "recurse" /\ ~item.visited THEN "expand" ELSE "emit"
    /\ log' = IF item.skip_reason # NoneStr
              THEN Append(sofar, Ev("skip", item, NoneStr, item.skip_reason))
              ELSE sofar

\* The end of walk::visit: a skipped item yields nothing, any other item
\* is handed on - to the closure of recurse_path on a first visit in a
\* recursive walk, to cli::run otherwise.
EndVisit(item, sofar) ==
    /\ cur' = item
    /\ IF item.skip_reason # NoneStr
       THEN /\ pc' = "pull"
            /\ log' = Append(sofar, Ev("skip", item, NoneStr, item.skip_reason))
       ELSE /\ pc' = IF Walk(args) = "recurse" /\ ~item.visited THEN "expand" ELSE "emit"
            /\ log' = sofar

\* BeginVisit asking the question whatever the item holds.
BeginVisit_askall(item, sofar) ==
    LET ts == Transformers(args)
        it == Fold(SubSeq(ts, 1, 4), fs, item)
    IN  IF ts[5] = "interactive"
        THEN /\ cur' = it
             /\ pc' = "prompt"
             /\ log' = Append(sofar, Ev("prompt", it, NoneStr, new_prompt_for(fs, it, it.visited)))
        ELSE EndVisit(Fold(SubSeq(ts, 5, 5), fs, it), sofar)

\* walk::visit up to the question of transform::interactive. (The item
\* and the outcome of the first four stages are bound by a quantifier over
\* a singleton, so that each is evaluated once.)
BeginVisit(item, sofar) ==
    \E given \in {item} :
    \E it \in {Fold(SubSeq(Transformers(args), 1, 4), fs, given)} :
    \E asked \in {new_prompt_for(fs, it, it.visited)} :
        IF Transformers(args)[5] = "interactive" /\ it.ok
        THEN /\ cur' = it
             /\ pc' = "prompt"
             /\ log' = Append(sofar, Ev("prompt", it, NoneStr, asked))
        ELSE \E out \in {Fold(SubSeq(Transformers(args), 5, 5), fs, it)} :
                 EndVisit(out, sofar)

\* main: parse_args hands the options to cli::run, or the process exits
\* with a usage error.
ParseArgs ==
    /\ pc = "parse"
    /\ LET parsed == parse_args(argv, env) IN
       IF parsed.ok
       THEN /\ args' = parsed.args
            /\ max_level' = configure(Verbosity(parsed.args))
            /\ pc' = "pull"
            /\ exit' = exit
       ELSE /\ pc' = "done"
            /\ exit' = "Usage"
            /\ UNCHANGED <<args, max_level>>
    /\ UNCHANGED <<argv, env, ext, vis, paths, fs, stack, cur, removed, errored, last, start, kept, log, hist>>

\* NextOperand opening the operand in the file system as it was when the
\* walk of the operand before it began.
NextOperand_stale ==
    /\ pc = "pull" /\ stack = << >> /\ paths # << >>
    /\ LET o == open(start.fs, Head(paths))
           item == IF Walk(args) = "given" THEN into_visited(o) ELSE o
       IN  BeginVisit(item, <<Ev("open", o, NoneStr, NoneStr)>>)
    /\ paths' = Tail(paths)
    /\ start' = [path |-> Head(paths), fs |-> fs, removed |-> removed, errored |-> errored]
    /\ kept' = [kept EXCEPT !.live = { n \in @ : ~IsPrefix(Node(Head(paths)), n) }]
    /\ last' = NoResponse
    /\ UNCHANGED <<argv, env, args, max_level, ext, vis, fs, stack, removed, errored, exit, hist>>

\* NextOperand with walk::given leaving the item unvisited.
NextOperand_unvisited ==
    /\ pc = "pull" /\ stack = << >> /\ paths # << >>
    /\ LET o == open(fs, Head(paths))
       IN  BeginVisit(o, <<Ev("open", o, NoneStr, NoneStr)>>)
    /\ paths' = Tail(paths)
    /\ start' = [path |-> Head(paths), fs |-> fs, removed |-> removed, errored |-> errored]
    /\ kept' = [kept EXCEPT !.live = { n \in @ : ~IsPrefix(Node(Head(paths)), n) }]
    /\ last' = NoResponse
    /\ UNCHANGED <<argv, env, args, max_level, ext, vis, fs, stack, removed, errored, exit, hist>>

\* cli::run pulls the walk of the next operand: walk::given or
\* recurse_path open the path and visit it.
NextOperand ==
    /\ pc = "pull" /\ stack = << >> /\ paths # << >>
    /\ LET o == open(fs, Head(paths))
           item == IF Walk(args) = "given" THEN into_visited(o) ELSE o
       IN  BeginVisit(item, <<Ev("open", o, NoneStr, NoneStr)>>)
    /\ paths' = Tail(paths)
    /\ start' = [path |-> Head(paths), fs |-> fs, removed |-> removed, errored |-> errored]
    /\ kept' = [kept EXCEPT !.live = { n \in @ : ~IsPrefix(Node(Head(paths)), n) }]
    /\ last' = NoResponse
    /\ UNCHANGED <<argv, env, args, max_level, ext, vis, fs, stack, removed, errored, exit, hist>>

\* recurse_path for the next child of the directory being descended into.
NextChild ==
    /\ pc = "pull" /\ stack # << >> /\ stack[Len(stack)].todo # << >>
    /\ LET top == stack[Len(stack)]
           o == open(fs, Head(top.todo))
       IN  /\ stack' = [stack EXCEPT ![Len(stack)].todo = Tail(top.todo)]
           /\ BeginVisit(o, Append(log, Ev("open", o, NoneStr, NoneStr)))
    /\ last' = NoResponse
    /\ UNCHANGED <<argv, env, args, max_level, ext, vis, paths, fs, removed, errored, exit, start, kept, hist>>

\* recurse_path after the last child: the directory is visited again, as
\* visited and without opening it again.
SecondVisit ==
    /\ pc = "pull" /\ stack # << >> /\ stack[Len(stack)].todo = << >>
    /\ LET top == stack[Len(stack)]
       IN  /\ stack' = SubSeq(stack, 1, Len(stack) - 1)
           /\ BeginVisit(Item(TRUE, top.dir.kind, top.dir.path, NoneStr, NoneStr, TRUE), log)
    /\ last' = NoResponse
    /\ UNCHANGED <<argv, env, args, max_level, ext, vis, paths, fs, removed, errored, exit, start, kept, hist>>

\* transform::interactive after the question: transform::prompt returns
\* and interact_transform maps the response.
Answer ==
    /\ pc = "prompt"
    /\ \E r \in Responses :
        /\ last' = IF kept.on THEN r ELSE NoResponse
        /\ EndVisit(interact_transform(prompt(r), cur), log)
        /\ kept' = IF kept.on /\ interact_transform(prompt(r), cur).skip_reason = SKIP_REASON_ANSWER_NO
                   THEN [kept EXCEPT !.ever = @ \cup {Node(cur.path)},
                                     !.live = @ \cup {Node(cur.path)}]
                   ELSE kept
    /\ UNCHANGED <<argv, env, args, max_level, ext, vis, paths, fs, stack, removed, errored, exit, start, hist>>

\* The orders a directory listing may come in.
Orders(S) == { q \in SeqsUpTo(S, Cardinality(S)) : Len(q) = Cardinality(S) /\ { q[i] : i \in 1..Len(q) } = S }

\* Expand with the directory yielded before what it holds (pre-order).
Expand_preorder ==
    /\ pc = "expand"
    /\ IF cur.ok /\ cur.kind = "Dir" /\ ~is_empty(fs, cur)
       THEN LET content == read_dir(fs, cur.path) IN
            \E order \in Orders(content.content) :
                /\ stack' = Append(stack,
                      [dir |-> cur,
                       todo |-> [i \in 1..Len(order) |-> Append(cur.path, order[i])]])
                /\ pc' = "emit"
                /\ cur' = into_visited(cur)
                /\ log' = Append(log, Ev("descend", cur, NoneStr, NoneStr))
       ELSE /\ pc' = "emit"
            /\ UNCHANGED <<stack, cur, log>>
    /\ last' = NoResponse
    /\ UNCHANGED <<argv, env, args, max_level, ext, vis, paths, fs, removed, errored, exit, start, kept, hist>>

\* What one change by another process makes of the file system f: an
\* object goes with all below it, a file or an empty directory appears
\* where there was nothing, or a file and an empty directory take each
\* other's place.
ExternalChange(f) ==
    UNION { (IF f[n] # "None"
             THEN { [m \in Nodes |-> IF IsPrefix(n, m) THEN "None" ELSE f[m]] }
             ELSE {})
            \cup { [f EXCEPT ![n] = k] :
                     k \in IF f[n] = "None" /\ f[SubSeq(n, 1, Len(n) - 1)] = "Dir"
                           THEN {"File", "Dir"}
                           ELSE IF f[n] = "File" THEN {"Dir"}
                           ELSE IF f[n] = "Dir" /\ Children(f, n) = {} THEN {"File"}
                           ELSE {} }
            : n \in Nodes \ { RootNode } }

\* The file system the listing of recurse_path finds after the test for
\* emptiness: the same, or changed by another process in between.
Between == { fs } \cup (IF ext > 0 THEN ExternalChange(fs) ELSE {})

\* Expand that, where the listing fails, yields the error and still
\* visits the directory a second time.
Expand_revisit ==
    /\ pc = "expand"
    /\ IF cur.ok /\ cur.kind = "Dir" /\ ~is_empty(fs, cur)
       THEN \E g \in Between :
            LET content == read_dir(g, cur.path) IN
            /\ fs' = g
            /\ ext' = IF g = fs THEN ext ELSE ext - 1
            /\ IF content.ok
               THEN \E order \in Orders(content.content) :
                       /\ stack' = Append(stack,
                             [dir |-> cur,
                              todo |-> [i \in 1..Len(order) |-> Append(cur.path, order[i])]])
                       /\ pc' = "pull"
                       /\ cur' = cur
                       /\ log' = Append(log, Ev("descend", cur, NoneStr, NoneStr))
               ELSE /\ cur' = into_err(cur, content.kind)
                    /\ pc' = "emit"
                    /\ stack' = Append(stack, [dir |-> cur, todo |-> << >>])
                    /\ UNCHANGED log
       ELSE /\ pc' = "emit"
            /\ UNCHANGED <<stack, cur, log, fs, ext>>
    /\ last' = NoResponse
    /\ UNCHANGED <<argv, env, args, max_level, vis, paths, removed, errored, exit, start, kept, hist>>

\* The closure of recurse_path on the result of the first visit: a
\* directory that is not empty is listed and descended into, a failed
\* listing becomes the error of the directory, anything else is yielded.
\* fs::is_empty and read_dir are two calls, and another process may change
\* the file system between them.
Expand ==
    /\ pc = "expand"
    /\ IF cur.ok /\ cur.kind = "Dir" /\ ~is_empty(fs, cur)
       THEN \E g \in Between :
            LET content == read_dir(g, cur.path) IN
            /\ fs' = g
            /\ ext' = IF g = fs THEN ext ELSE ext - 1
            /\ IF content.ok
               THEN \E order \in Orders(content.content) :
                       /\ stack' = Append(stack,
                             [dir |-> cur,
                              todo |-> [i \in 1..Len(order) |-> Append(cur.path, order[i])]])
                       /\ pc' = "pull"
                       /\ cur' = cur
                       /\ log' = Append(log, Ev("descend", cur, NoneStr, NoneStr))
               ELSE /\ cur' = into_err(cur, content.kind)
                    /\ pc' = "emit"
                    /\ UNCHANGED <<stack, log>>
       ELSE /\ pc' = "emit"
            /\ UNCHANGED <<stack, cur, log, fs, ext>>
    /\ last' = NoResponse
    /\ UNCHANGED <<argv, env, args, max_level, vis, paths, removed, errored, exit, start, kept>>
    /\ hist' = IF hist.on /\ stack' # stack
               THEN [hist EXCEPT !.listed = Append(@, stack'[Len(stack')].todo)]
               ELSE hist

\* Emit that does not count the errors of the remover.
Emit_lossy ==
    /\ pc = "emit"
    /\ IF cur.ok
       THEN LET r == Remover(args, fs, cur) IN
            /\ fs' = r.fs
            /\ removed' = IF r.ok THEN removed + 1 ELSE removed
            /\ errored' = errored
            /\ log' = log \o <<Ev("yield", cur, NoneStr, NoneStr),
                              Ev("remove", cur, IF r.ok THEN "Ok" ELSE r.kind,
                                 IF r.ok THEN Message(args) ELSE into_err(cur, r.kind).tip)>>
       ELSE /\ errored' = errored + 1
            /\ log' = Append(log, Ev("yield", cur, NoneStr, NoneStr))
            /\ UNCHANGED <<fs, removed>>
    /\ pc' = "pull"
    /\ last' = NoResponse
    /\ UNCHANGED <<argv, env, args, max_level, ext, vis, paths, stack, cur, exit, start, kept, hist>>

\* cli::run on a result the walk yields: an entry goes to the remover, the
\* outcome is reported and counted. (The counters saturate at usize::MAX,
\* which no run reaches.)
Emit ==
    /\ pc = "emit"
    /\ IF cur.ok
       THEN LET r == Remover(args, fs, cur) IN
            /\ fs' = r.fs
            /\ removed' = IF r.ok THEN removed + 1 ELSE removed
            /\ errored' = IF r.ok THEN errored ELSE errored + 1
            /\ log' = log \o <<Ev("yield", cur, NoneStr, NoneStr),
                              Ev("remove", cur, IF r.ok THEN "Ok" ELSE r.kind,
                                 IF r.ok THEN Message(args) ELSE into_err(cur, r.kind).tip)>>
       ELSE /\ errored' = errored + 1
            /\ log' = Append(log, Ev("yield", cur, NoneStr, NoneStr))
            /\ UNCHANGED <<fs, removed>>
    /\ pc' = "pull"
    /\ last' = NoResponse
    /\ UNCHANGED <<argv, env, args, max_level, ext, vis, paths, stack, cur, exit, start, kept>>
    /\ hist' = IF hist.on
               THEN [hist EXCEPT !.out = Append(@, Outcome(cur, log'[Len(log')]))]
               ELSE hist

\* Finish that takes a run that removed nothing for a failure.
Finish_nothing ==
    /\ pc = "pull" /\ stack = << >> /\ paths = << >>
    /\ exit' = IF errored > 0 \/ removed = 0 THEN "Err" ELSE "Ok"
    /\ pc' = "done"
    /\ last' = NoResponse
    /\ UNCHANGED <<argv, env, args, max_level, ext, vis, paths, fs, stack, cur, removed, errored, start, kept, log, hist>>

\* Finish that ends the run at the first error.
Finish_failfast ==
    /\ pc = "pull" /\ stack = << >> /\ (paths = << >> \/ errored > 0)
    /\ exit' = IF errored > 0 THEN "Err" ELSE "Ok"
    /\ pc' = "done"
    /\ last' = NoResponse
    /\ UNCHANGED <<argv, env, args, max_level, ext, vis, paths, fs, stack, cur, removed, errored, start, kept, log, hist>>

\* The end of cli::run, after the last operand.
Finish ==
    /\ pc = "pull" /\ stack = << >> /\ paths = << >>
    /\ exit' = IF errored > 0 THEN "Err" ELSE "Ok"
    /\ pc' = "done"
    /\ last' = NoResponse
    /\ UNCHANGED <<argv, env, args, max_level, ext, vis, paths, fs, stack, cur, removed, errored, start, kept, log, hist>>

Next ==
    \/ ParseArgs
    \/ NextOperand
    \/ NextChild
    \/ SecondVisit
    \/ Answer
    \/ Expand
    \/ Emit
    \/ Finish

Spec == Init /\ [][Next]_vars

\* The runs that ask questions, on the smaller file system, with the
\* responses read and the objects the user answers no for recorded.
InitKept ==
    /\ argv \in { a \in CommandLines : a.interactive /\ ~a.quiet /\ ~a.verbose }
    /\ env = [debug |-> FALSE, gnu_mode |-> FALSE]
    /\ args = argv
    /\ max_level = "Off"
    /\ ext = 0
    /\ vis = NoVisit
    /\ paths \in (SeqsUpTo(Operands, MaxOperands) \ { << >> })
                \cup { <<p>> : p \in DangerousOperands }
    /\ fs = RootFS
    /\ stack = << >>
    /\ pc = "parse"
    /\ cur = NoItem
    /\ removed = 0
    /\ errored = 0
    /\ exit = NoneStr
    /\ last = NoResponse
    /\ start = [path |-> << >>, fs |-> fs, removed |-> 0, errored |-> 0]
    /\ kept = [on |-> TRUE, ever |-> {}, live |-> {}]
    /\ hist = NoHist
    /\ log = << >>

SpecKept == InitKept /\ [][Next]_vars

\* ------------------------------------------------------------- properties
TypeOK ==
    /\ argv \in CommandLines /\ args \in CommandLines /\ env \in Vars
    /\ (pc # "parse" /\ exit # "Usage") => args = parse_args(argv, env).args
    /\ max_level \in {"Off", "Error", "Info", "Trace"}
    /\ ext \in Nat
    /\ pc \in {"parse", "pull", "prompt", "expand", "emit", "done"}
    /\ removed \in Nat /\ errored \in Nat
    /\ exit \in {NoneStr, "Ok", "Err", "Usage"}
    /\ \A n \in Nodes : fs[n] \in EntryKind \cup {"None"}

Under(p, q) == Len(Node(p)) < Len(Node(q)) /\ IsPrefix(Node(p), Node(q))

Yields == { i \in DOMAIN log : log[i].ev = "yield" }

\* The yields of a directory after its descent, in a recursive walk.
PostYields == { j \in Yields : Walk(args) = "recurse" /\ log[j].visited }

\* C1: in a recursive walk every outcome yielded for an object below a
\* directory comes before the outcome the directory yields after the
\* descent, at every depth: nothing below the directory is yielded after
\* it, every object below it that was opened has got its outcome (yielded
\* or skipped) by then, and when no question is asked every object below
\* the directory has yielded its outcome by then.
C1_PostOrder ==
    \A j \in PostYields :
        /\ \A i \in Yields : Under(log[j].path, log[i].path) => i < j
        /\ \A i \in DOMAIN log :
              log[i].ev = "open" /\ Under(log[j].path, log[i].path)
              => \E k \in (i + 1)..(j - 1) :
                    log[k].ev \in {"yield", "skip"} /\ log[k].path = log[i].path
        /\ ~args.interactive
           => \A n \in Descendants(start.fs, Node(log[j].path)) :
                 \E i \in Yields : i < j /\ Node(log[i].path) = n

\* d yields its outcome after the descent, after the one of d/e after its
\* own descent and after those of d/f and d/e/g.
C1_Witness ==
    \E j \in PostYields :
        /\ log[j].path = <<"d">>
        /\ \E i \in PostYields : i < j /\ log[i].path = <<"d", "e">>
        /\ \E i \in Yields : i < j /\ log[i].path = <<"d", "f">>
        /\ \E i \in Yields : i < j /\ log[i].path = <<"d", "e", "g">>

Removes == { i \in DOMAIN log : log[i].ev = "remove" }

\* The walk of the present operand has ended.
WalkEnded == start.path # << >> /\ stack = << >> /\ pc \in {"pull", "done"}

\* The present operand was a directory when its walk began, and the
\* transformers let it through.
AdmittedDir ==
    LET it == Fold(SubSeq(Transformers(args), 1, 4), start.fs, open(start.fs, start.path))
    IN  start.path # << >> /\ it.ok /\ it.kind = "Dir"

Tree(f, path) == { Node(path) } \cup Descendants(f, Node(path))

\* C2: with --recursive and --force (no trash, no questions) a directory
\* goes to the remover only after the remover has succeeded on everything
\* below it, it is empty at that moment and its removal succeeds; when the
\* walk of a directory operand ends nothing of its tree exists, the removed
\* count has grown by the number of objects of the tree and the errored
\* count has not grown.
C2_RemoveAfterDescendants ==
    (args.recursive /\ args.force /\ ~args.trash)
    => /\ \A j \in Removes :
            log[j].kind = "Dir"
            => /\ log[j].res = "Ok"
               /\ \A n \in Descendants(start.fs, Node(log[j].path)) :
                     \E i \in Removes : i < j /\ Node(log[i].path) = n /\ log[i].res = "Ok"
       /\ (pc = "emit" /\ cur.ok /\ cur.kind = "Dir") => Children(fs, Node(cur.path)) = {}
       /\ (WalkEnded /\ AdmittedDir)
          => /\ \A n \in Tree(start.fs, start.path) : fs[n] = "None"
             /\ removed = start.removed + Cardinality(Tree(start.fs, start.path))
             /\ errored = start.errored

\* The walk of d, with e, f and g below it, has ended under --recursive
\* --force and has removed the four of them.
C2_Witness ==
    /\ args.recursive /\ args.force /\ ~args.trash
    /\ WalkEnded /\ AdmittedDir
    /\ start.path = <<"d">> /\ Cardinality(Tree(start.fs, start.path)) = 4
    /\ removed = start.removed + 4
    /\ \E j \in Removes : log[j].path = <<"d">> /\ log[j].res = "Ok"

\* C3: a dry run (neither --force nor --interactive) never changes the
\* file system, whatever the other options and the operands, and its
\* remover (show_remove or show_dispose) never returns an error.
C3_DryRunFrame ==
    /\ [][dry_run(args) => fs' = fs]_vars
    /\ [](dry_run(args) => \A j \in Removes : log[j].res = "Ok")

\* A dry run with --recursive has walked d: the remover has reported the
\* four objects of its tree, and all of them are still there.
C3_Witness ==
    /\ dry_run(args) /\ args.recursive /\ ~args.trash
    /\ WalkEnded /\ start.path = <<"d">>
    /\ Cardinality(Removes) = 4
    /\ removed = start.removed + 4
    /\ \A n \in Tree(InitFS, <<"d">>) : fs[n] = InitFS[n] /\ fs[n] # "None"

Skips == { i \in DOMAIN log : log[i].ev = "skip" }

\* C4: an item with a skip reason never reaches the remover and counts
\* for neither tally, whether skip_not_found (third transformer) or
\* interactive (fifth transformer) set the reason: no item handed to
\* cli::run carries a skip reason, a skipped path is neither yielded nor
\* removed afterwards in the walk, the step that skips changes neither the
\* file system nor a counter, and the counters count exactly the remover's
\* results and the yielded errors.
C4_SkipNeverRemoved ==
    /\ [](pc \in {"emit", "expand"} => cur.skip_reason = NoneStr)
    /\ [](\A i \in Skips : \A j \in DOMAIN log :
            (j > i /\ log[j].ev \in {"yield", "remove"}) => log[j].path # log[i].path)
    /\ [](removed = start.removed + Cardinality({ j \in Removes : log[j].res = "Ok" }))
    /\ [](errored = start.errored + Cardinality({ j \in Removes : log[j].res # "Ok" })
                                  + Cardinality({ j \in Yields : ~log[j].ok }))
    /\ [][cur'.skip_reason # NoneStr /\ cur' # cur
            => (fs' = fs /\ removed' = removed /\ errored' = errored /\ pc' = "pull")]_vars

\* In a walk of d the user kept d itself at the question after the
\* descent: the walk has ended, d is still there and the counters count
\* only what was removed below it.
C4_Witness ==
    /\ WalkEnded /\ start.path = <<"d">>
    /\ \E i \in Skips : log[i].path = <<"d">> /\ log[i].visited /\ i = Len(log)
    /\ cur.skip_reason = SKIP_REASON_ANSWER_NO
    /\ fs[<<"d">>] = "Dir"
    /\ Cardinality(Removes) = 3
    /\ removed = start.removed + 3 /\ errored = start.errored

\* The answers that interact_transform takes for a no.
IsNo(r) ==
    r.io = "ok" /\ r.line \in { <<"n", "\n">>, <<"\t", "N", "O", " ", "\n">> }

\* The original statement of C5: an object the user answered no for
\* exists at the end of the run.
C5_KeptExistsAfterRun ==
    pc = "done" => \A n \in kept.ever : fs[n] # "None"

\* C5 (amended): when the user answers "n" or "no" (any case, surrounded by
\* white space) the entry is skipped with "Kept by user": it is not handed
\* to the remover, the step changes neither the file system nor a counter,
\* and the object exists from then on to the end of the run unless a later
\* operand names it or a directory it lies in.
C5_KeptByUser ==
    /\ [](IsNo(last) => /\ cur.skip_reason = SKIP_REASON_ANSWER_NO
                        /\ pc = "pull"
                        /\ log[Len(log)].ev = "skip" /\ log[Len(log)].path = cur.path
                        /\ fs[Node(cur.path)] # "None")
    /\ [][IsNo(last') => (fs' = fs /\ removed' = removed /\ errored' = errored)]_vars
    /\ [](\A i \in Skips : log[i].info = SKIP_REASON_ANSWER_NO
            => \A j \in DOMAIN log : (j > i /\ log[j].ev = "remove") => log[j].path # log[i].path)
    /\ [](\A n \in kept.live : fs[n] # "None")

\* The run has ended; the user answered no for h, which no later operand
\* names, and yes for d/f, and h is still there.
C5_Witness ==
    /\ pc = "done"
    /\ <<"h">> \in kept.live /\ fs[<<"h">>] = "File"
    /\ fs[<<"d", "f">>] = "None"
    /\ removed = 1 /\ errored = 0

\* The lines of Lines by what the user meant.
YesLines == { <<"y", "\n">>, <<" ", "Y", "e", "S", "\n">>, <<"Y">> }
NoLines == { <<"n", "\n">>, <<"\t", "N", "O", " ", "\n">> }
OtherTextLines == { <<"q", "\n">>, <<"n", " ", "o", "\n">> }

\* C6: the Answer step maps the response: y / yes (any case, white space
\* around it) leaves the item as it is, n / no skips it with "Kept by
\* user", any other text skips it with "Unrecognized input", a failure of
\* the write of the question, of the read or of the write that clears the
\* line skips it with "I/O error".
C6_AnswerMapping ==
    [][/\ (last'.io = "ok" /\ last'.line \in YesLines)
            => (cur' = cur /\ cur'.skip_reason = NoneStr)
       /\ (last'.io = "ok" /\ last'.line \in NoLines)
            => cur' = [cur EXCEPT !.skip_reason = "Kept by user"]
       /\ (last'.io = "ok" /\ last'.line \in OtherTextLines)
            => cur' = [cur EXCEPT !.skip_reason = "Unrecognized input"]
       /\ last'.io \in {"write_err", "read_err", "clear_err"}
            => cur' = [cur EXCEPT !.skip_reason = "I/O error"]]_vars

\* The user answered "n o" to the question for the file h, and h was
\* skipped for unrecognized input.
C6_Witness ==
    /\ last = [io |-> "ok", line |-> <<"n", " ", "o", "\n">>]
    /\ cur.path = <<"h">> /\ cur.ok /\ cur.kind = "File"
    /\ cur.skip_reason = SKIP_REASON_ANSWER_UNKNOWN
    /\ pc = "pull"

Prompts == { i \in DOMAIN log : log[i].ev = "prompt" }

\* C7: the interactive transformer asks only for entries: a question is
\* pending only for an item that holds an entry and is not skipped, a
\* response is read only while such a question is pending, and a path that
\* the walk yields as an error or skips as not found was never asked
\* about.
C7_AskOnlyEntries ==
    /\ [](pc = "prompt" => (cur.ok /\ cur.skip_reason = NoneStr))
    /\ [](\A i \in Prompts : log[i].ok)
    /\ [](\A j \in DOMAIN log :
            \/ (log[j].ev = "yield" /\ ~log[j].ok)
            \/ (log[j].ev = "skip" /\ log[j].info = SKIP_REASON_NOT_FOUND)
            => \A i \in Prompts : log[i].path # log[j].path)
    /\ [][last' # NoResponse => (pc = "prompt" /\ cur.ok /\ cur.skip_reason = NoneStr)]_vars

\* A run with --interactive has refused the root without a question.
C7_Witness ==
    /\ args.interactive /\ start.path = <<"/">>
    /\ WalkEnded
    /\ Prompts = {}
    /\ \E j \in Yields : log[j].path = <<"/">> /\ ~log[j].ok /\ log[j].kind = "Refused"

\* The children of a directory that the remover has removed before the
\* event i of the walk.
Gone(i) ==
    { c \in Children(start.fs, Node(log[i].path)) :
        \E j \in Removes : j < i /\ Node(log[j].path) = c /\ log[j].res = "Ok" }

\* C8: the question depends on the kind and, for a directory, on the
\* visit and on what it holds: a file is asked "Remove regular file", a
\* symbolic link "Remove symbolic link", a directory that held nothing
\* when the walk began "Remove empty directory"; a directory that held
\* something is asked "Descend into directory" on the first visit of a
\* recursive walk and, once visited, "Remove empty directory" if all its
\* children have been removed by then and "Remove directory" otherwise.
C8_Questions ==
    \A i \in Prompts :
        LET kids == Children(start.fs, Node(log[i].path))
            first == Walk(args) = "recurse" /\ ~log[i].visited
        IN  log[i].info =
              CASE log[i].kind = "File" -> "Remove regular file"
                [] log[i].kind = "Symlink" -> "Remove symbolic link"
                [] log[i].kind = "Dir" /\ kids = {} -> "Remove empty directory"
                [] log[i].kind = "Dir" /\ kids # {} /\ first -> "Descend into directory"
                [] log[i].kind = "Dir" /\ kids # {} /\ ~first /\ Gone(i) = kids
                      -> "Remove empty directory"
                [] OTHER -> "Remove directory"

\* In a recursive walk the user was asked to descend into d and into d/e,
\* removed d/e/g and was asked to remove the empty d/e, kept d/f, and is
\* now asked to remove d, which still holds something.
C8_Witness ==
    /\ pc = "prompt" /\ cur.path = <<"d">> /\ cur.visited
    /\ log[Len(log)].info = "Remove directory"
    /\ \E i \in Prompts : log[i].path = <<"d">> /\ log[i].info = "Descend into directory"
    /\ \E i \in Prompts : log[i].path = <<"d", "e">> /\ log[i].info = "Descend into directory"
    /\ \E i \in Prompts : log[i].path = <<"d", "e">> /\ log[i].info = "Remove empty directory"
    /\ \E i \in Prompts : log[i].path = <<"d", "f">> /\ log[i].info = "Remove regular file"
    /\ fs[<<"d", "f">>] = "File" /\ fs[<<"d", "e">>] = "None"

\* The event i ends the first visit of a directory in an error or a skip.
FirstVisitRefused(i) ==
    /\ \/ log[i].ev = "skip"
       \/ (log[i].ev = "yield" /\ ~log[i].ok)
    /\ Walk(args) = "given" \/ ~log[i].visited
    /\ Node(log[i].path) \in Nodes
    /\ start.fs[Node(log[i].path)] = "Dir"

\* C9: a directory whose first visit ends in an error or a skip is not
\* descended into: the walk has no event (open, question, yield, skip or
\* removal) for anything below it, no later event for the directory
\* itself, and everything below it is still there.
C9_NoDescentAfterRefusal ==
    \A i \in DOMAIN log :
        FirstVisitRefused(i)
        => /\ \A j \in DOMAIN log : ~Under(log[i].path, log[j].path)
           /\ \A j \in DOMAIN log : j > i => Node(log[j].path) # Node(log[i].path)
           /\ \A n \in Descendants(start.fs, Node(log[i].path)) : fs[n] = start.fs[n]

\* In a recursive walk the user gave an unrecognized answer to "Descend
\* into directory d": the walk of d has ended with three events, and d and
\* all it holds are still there.
C9_Witness ==
    /\ Walk(args) = "recurse" /\ WalkEnded /\ start.path = <<"d">>
    /\ Len(log) = 3
    /\ log[2].ev = "prompt" /\ log[2].info = "Descend into directory"
    /\ log[3].ev = "skip" /\ log[3].info = SKIP_REASON_ANSWER_UNKNOWN /\ ~log[3].visited
    /\ \A n \in Tree(InitFS, <<"d">>) : fs[n] = InitFS[n]

\* The remover calls on a directory one of whose children the user kept
\* before.
KeptChild(j) ==
    { c \in Children(start.fs, Node(log[j].path)) :
        \E i \in Skips : i < j /\ Node(log[i].path) = c /\ log[i].info = "Kept by user" }

\* C10: in a recursive interactive walk, when the user has descended into
\* a directory, kept a child and then confirms the removal of the
\* directory, the remover fails with DirectoryNotEmpty and no tip, the
\* directory and the kept child stay, the failure is counted as one error,
\* and the run ends in failure.
C10_KeptChildFailsRemoval ==
    (args.recursive /\ args.interactive /\ ~args.trash)
    => /\ \A j \in Removes :
            (log[j].kind = "Dir" /\ KeptChild(j) # {})
            => /\ log[j].res = "DirectoryNotEmpty"
               /\ log[j].info = NoneStr
               /\ fs[Node(log[j].path)] = "Dir"
               /\ \A c \in KeptChild(j) : fs[c] # "None"
               /\ errored > start.errored
               /\ pc = "done" => exit = "Err"
       /\ errored = start.errored + Cardinality({ j \in Removes : log[j].res # "Ok" })
                                  + Cardinality({ j \in Yields : ~log[j].ok })

\* The run has ended in failure: in the walk of d the user descended,
\* kept d/f and confirmed the removal of d, which failed as not empty; it
\* is the one error of the run.
C10_Witness ==
    /\ args.recursive /\ args.interactive /\ ~args.trash
    /\ pc = "done" /\ exit = "Err" /\ errored = 1
    /\ start.path = <<"d">>
    /\ \E j \in Removes :
          /\ log[j].path = <<"d">> /\ log[j].res = "DirectoryNotEmpty"
          /\ <<"d", "f">> \in KeptChild(j)
    /\ fs[<<"d">>] = "Dir" /\ fs[<<"d", "f">>] = "File"

\* The path spells the file system root: "/", with "." after it or not.
NoParent(path) ==
    path # << >> /\ path[1] = "/" /\ \A k \in 2..Len(path) : path[k] = "."

\* The events of the walk for a path without a parent.
RootEvents == { i \in DOMAIN log : NoParent(log[i].path) }

\* C11: without --no-preserve-root a path without a parent is yielded as
\* the error Refused without a tip, whatever the other options: it is
\* never asked about, descended into or handed to the remover, and its
\* walk changes nothing but the errored count, which grows by one. With
\* --no-preserve-root the second transformer is the identity: the root is
\* never refused and meets the directory admission like any directory.
C11_RootRefused ==
    /\ ~args.no_preserve_root
       => /\ \A i \in RootEvents :
               /\ log[i].ev \in {"open", "yield"}
               /\ log[i].ev = "yield"
                  => (~log[i].ok /\ log[i].kind = "Refused" /\ log[i].tip = NoneStr)
          /\ (WalkEnded /\ NoParent(start.path))
             => /\ Len(log) = 2 /\ log[2].ev = "yield"
                /\ fs = start.fs
                /\ removed = start.removed /\ errored = start.errored + 1
    /\ args.no_preserve_root
       => \A i \in RootEvents :
            log[i].ev = "yield"
            => CASE args.recursive -> log[i].ok /\ log[i].kind = "Dir"
                 [] args.dir -> /\ ~log[i].ok /\ log[i].kind = "DirectoryNotEmpty"
                                /\ log[i].tip = TIP_DIR_NOT_EMPTY
                 [] OTHER -> /\ ~log[i].ok /\ log[i].kind = "IsADirectory"
                             /\ log[i].tip = TIP_IS_DIR

\* The walk of "/" under --recursive --force without --no-preserve-root
\* has ended: the root was refused, which is the one error, and nothing
\* was removed.
C11_Witness ==
    /\ ~args.no_preserve_root /\ args.recursive /\ args.force
    /\ WalkEnded /\ start.path = <<"/">>
    /\ log[2].ev = "yield" /\ log[2].kind = "Refused" /\ log[2].tip = NoneStr
    /\ errored = 1 /\ removed = 0
    /\ fs = RootFS

\* The events of the walk for an existing object whose path ends in the
\* component "." or "..".
DotEvents ==
    { i \in DOMAIN log :
        /\ log[i].path # << >>
        /\ log[i].path[Len(log[i].path)] \in {".", ".."}
        /\ Exists(start.fs, log[i].path) }

\* C12: an existing object whose path ends in the component "." or ".." is
\* yielded as the error Refused without a tip, whatever the options: it is
\* never asked about, descended into or handed to the remover, and nothing
\* below it is visited.
C12_DotRefused ==
    \A i \in DotEvents :
        /\ log[i].ev \in {"open", "yield"}
        /\ log[i].ev = "yield"
           => (~log[i].ok /\ log[i].kind = "Refused" /\ log[i].tip = NoneStr)
        /\ \A j \in DOMAIN log : j > i => ~Under(log[i].path, log[j].path)

\* The present operand named a directory when its walk began.
DirOperand ==
    /\ start.path # << >> /\ Node(start.path) \in Nodes
    /\ start.fs[Node(start.path)] = "Dir"

\* The present operand as the first two transformers leave it.
Guarded == Fold(SubSeq(Transformers(args), 1, 2), start.fs, open(start.fs, start.path))

\* The original statement of C13: with neither --dir nor --recursive every
\* directory operand is yielded as the error IsADirectory with the tip
\* "use '--dir' to remove", and the directory and what it holds stay.
C13_EveryDirIsADirectory ==
    (~args.dir /\ ~args.recursive /\ WalkEnded /\ DirOperand)
    => /\ Len(log) = 2 /\ log[2].ev = "yield" /\ ~log[2].ok
       /\ log[2].kind = "IsADirectory" /\ log[2].tip = TIP_IS_DIR
       /\ fs = start.fs

\* C13 (amended): with neither --dir nor --recursive a directory operand,
\* empty or not, is yielded as one error and its walk asks nothing, removes
\* nothing and counts one error, also under --force: the error is
\* IsADirectory with the tip "use '--dir' to remove", unless the first two
\* transformers refuse the path (the root, ".", ".."), which makes it
\* Refused without a tip.
C13_DirNeedsDirMode ==
    (~args.dir /\ ~args.recursive /\ WalkEnded /\ DirOperand)
    => /\ Len(log) = 2 /\ log[2].ev = "yield" /\ ~log[2].ok
       /\ IF Guarded.ok
          THEN log[2].kind = "IsADirectory" /\ log[2].tip = TIP_IS_DIR
          ELSE log[2].kind = "Refused" /\ log[2].tip = NoneStr
       /\ fs = start.fs
       /\ removed = start.removed /\ errored = start.errored + 1

\* Under --force without --dir and --recursive the walk of the empty
\* directory x has ended: x was yielded as IsADirectory with the tip and is
\* still there.
C13_Witness ==
    /\ args.force /\ ~args.dir /\ ~args.recursive
    /\ WalkEnded /\ start.path = <<"x">>
    /\ log[2].ev = "yield" /\ log[2].kind = "IsADirectory" /\ log[2].tip = TIP_IS_DIR
    /\ fs[<<"x">>] = "Dir"
    /\ errored = start.errored + 1

C15_DirsExclusive ==
    (args.dir /\ args.recursive)
    => /\ pc \in {"parse", "done"}
       /\ pc = "done" => exit = "Usage"
       /\ start.path = << >> /\ cur = NoItem /\ log = << >> /\ stack = << >>
       /\ removed = 0 /\ errored = 0
       /\ fs = start.fs

\* The command line --dir --recursive --force d x has ended in a usage
\* error with d and x untouched.
C15_Witness ==
    /\ args.dir /\ args.recursive /\ args.force
    /\ pc = "done" /\ exit = "Usage"
    /\ paths = << <<"d">>, <<"x">> >>
    /\ fs = InitFS

\* The present operand named nothing when its walk began.
MissingOperand == start.path # << >> /\ ~Exists(start.fs, start.path)

\* C16: with --blind an operand that names nothing is skipped with the
\* reason "Not found": no question is asked, nothing is yielded to cli::run
\* (so no error is reported), neither counter and nothing of the file
\* system changes, and a run that had no error before such an operand and
\* ends after it ends in success.
C16_BlindSkipsMissing ==
    (args.blind /\ WalkEnded /\ MissingOperand)
    => /\ Len(log) = 2
       /\ log[2].ev = "skip" /\ log[2].info = SKIP_REASON_NOT_FOUND
       /\ log[2].path = start.path /\ ~log[2].ok /\ log[2].kind = "NotFound"
       /\ cur.skip_reason = SKIP_REASON_NOT_FOUND
       /\ removed = start.removed /\ errored = start.errored
       /\ fs = start.fs
       /\ (pc = "done" /\ start.errored = 0) => exit = "Ok"

\* The run --blind --force m m has ended in success with both counters at
\* zero; the second m was skipped as not found.
C16_Witness ==
    /\ args.blind /\ args.force
    /\ pc = "done" /\ exit = "Ok"
    /\ start.path = <<"m">> /\ start.errored = 0 /\ start.removed = 0
    /\ removed = 0 /\ errored = 0
    /\ log[2].ev = "skip" /\ log[2].info = SKIP_REASON_NOT_FOUND

\* C17: without --blind an operand that names nothing is yielded as the
\* error NotFound with the tip "use '--blind' to ignore" and counts as
\* exactly one error, in a dry run as under --force (and with
\* --interactive, where no question is asked); the errored count never
\* shrinks and a run that ends with an error counted ends in failure.
C17_MissingIsError ==
    /\ []((~args.blind /\ WalkEnded /\ MissingOperand)
          => /\ Len(log) = 2
             /\ log[2].ev = "yield" /\ ~log[2].ok
             /\ log[2].kind = "NotFound" /\ log[2].tip = TIP_NOT_FOUND
             /\ log[2].path = start.path
             /\ errored = start.errored + 1 /\ removed = start.removed
             /\ fs = start.fs
             /\ pc = "done" => exit = "Err")
    /\ [][errored' >= errored]_vars
    /\ []((pc = "done" /\ errored > 0) => exit = "Err")

\* The dry run "m h" has ended in failure: m was yielded as NotFound with
\* the tip and is the one error, h was reported after it.
C17_Witness ==
    /\ ~args.blind /\ dry_run(args)
    /\ pc = "done" /\ exit = "Err"
    /\ start.path = <<"h">> /\ start.errored = 1
    /\ errored = 1 /\ removed = 1

\* C18: cli::run ends in failure exactly if the errored count is above
\* zero when the last operand has been walked; a step that skips an item
\* and a remover call that succeeds (or reports, in a dry run) leave the
\* errored count as it is, so neither makes the run fail.
C18_FailIffErrored ==
    /\ []((pc = "done" /\ exit # "Usage")
          => /\ exit \in {"Ok", "Err"}
             /\ exit = "Err" <=> errored > 0)
    /\ [](pc # "done" => exit = NoneStr)
    /\ [][errored' # errored
            => /\ pc = "emit" /\ errored' = errored + 1
               /\ \/ ~cur.ok
                  \/ log'[Len(log')].ev = "remove" /\ log'[Len(log')].res # "Ok"]_vars

\* The run --blind --force "h m" has ended in success: h was removed, m
\* was skipped as not found, no error was counted.
C18_Witness ==
    /\ args.blind /\ args.force /\ ~args.trash
    /\ pc = "done" /\ exit = "Ok"
    /\ start.path = <<"m">> /\ cur.skip_reason = SKIP_REASON_NOT_FOUND
    /\ removed = 1 /\ errored = 0
    /\ fs[<<"h">>] = "None"

\* The last event of the walk after a step.
LastEv == log'[Len(log')]

\* C19: every result that reaches cli::run adds one to exactly one of the
\* two counters - a success of the remover to removed, an error of the
\* remover or an error the walk yields to errored - and no other step
\* changes a counter; so removed counts the successes of the remover and
\* errored the errors of the remover and of the walk.
C19_TallyExact ==
    /\ [][IF pc = "emit"
          THEN /\ removed' + errored' = removed + errored + 1
               /\ removed' = removed + 1
                    <=> (LastEv.ev = "remove" /\ LastEv.res = "Ok")
               /\ errored' = errored + 1
                    <=> \/ (LastEv.ev = "remove" /\ LastEv.res # "Ok")
                        \/ (LastEv.ev = "yield" /\ ~LastEv.ok)
          ELSE removed' = removed /\ errored' = errored]_vars
    /\ [](removed = start.removed + Cardinality({ j \in Removes : log[j].res = "Ok" }))
    /\ [](errored = start.errored + Cardinality({ j \in Removes : log[j].res # "Ok" })
                                  + Cardinality({ j \in Yields : ~log[j].ok }))
    /\ [](Cardinality(Yields) = Cardinality(Removes) + Cardinality({ j \in Yields : ~log[j].ok }))

\* The run --recursive --interactive "m d" has ended with two errors, one
\* of the walk (m, not found) and one of the remover (d, not empty, after
\* the user kept something in it), and with what the user let go of in d
\* counted as removed.
C19_Witness ==
    /\ args.recursive /\ args.interactive /\ ~args.trash /\ ~args.blind
    /\ pc = "done" /\ start.path = <<"d">> /\ start.errored = 1
    /\ \E j \in Removes : log[j].path = <<"d">> /\ log[j].res = "DirectoryNotEmpty"
    /\ \E j \in Removes : log[j].res = "Ok"
    /\ errored = 2 /\ removed >= 1

SymlinkOperand ==
    /\ start.path # << >> /\ Node(start.path) \in Nodes
    /\ start.fs[Node(start.path)] = "Symlink"

\* C21: a symbolic link is never descended into, whatever it points to and
\* whatever the options: its walk opens the link as a Symlink, has events
\* for the link only, never lists anything, and ends with one outcome
\* (yielded or skipped); nothing but the link itself changes, so what it
\* points to and all below that are still there, and under --force the
\* link is gone and counted as removed.
C21_SymlinkTerminal ==
    SymlinkOperand
    => /\ stack = << >>
       /\ \A i \in DOMAIN log : log[i].path = start.path /\ log[i].ev # "descend"
       /\ log # << >> => (log[1].ok /\ log[1].kind = "Symlink")
       /\ Cardinality(Yields) + Cardinality(Skips) <= 1
       /\ WalkEnded => Cardinality(Yields) + Cardinality(Skips) = 1
       /\ \A n \in Nodes : n # Node(start.path) => fs[n] = start.fs[n]
       /\ (WalkEnded /\ args.force)
          => /\ fs[Node(start.path)] = "None"
             /\ removed = start.removed + 1 /\ errored = start.errored

\* The recursive walk of l under --force has ended: l, which points to the
\* directory d, is gone, d and all it holds are still there.
C21_Witness ==
    /\ args.recursive /\ args.force /\ ~args.trash
    /\ WalkEnded /\ start.path = <<"l">>
    /\ Len(log) = 3 /\ log[3].ev = "remove" /\ log[3].res = "Ok"
    /\ fs[<<"l">>] = "None"
    /\ \A n \in Tree(InitFS, <<"d">>) : fs[n] = InitFS[n]

\* The tip that goes with a kind of error, if any does.
TipOf(kind) ==
    CASE kind = "NotFound" -> TIP_NOT_FOUND
      [] kind = "IsADirectory" -> TIP_IS_DIR
      [] kind = "DirectoryNotEmpty" -> TIP_DIR_NOT_EMPTY
      [] OTHER -> NoneStr

\* C23: an error carries a tip only if its kind is NotFound, IsADirectory
\* or DirectoryNotEmpty, and then the tip of that kind; this holds of the
\* item being visited, of every error the walk opens, skips or yields and
\* of every error of the remover (which never carries a tip). An error
\* Refused, Unknown or PermissionDenied never carries one.
C23_TipsOnlyOnRecoverable ==
    /\ (~cur.ok /\ cur.tip # NoneStr)
       => (cur.kind \in {"NotFound", "IsADirectory", "DirectoryNotEmpty"} /\ cur.tip = TipOf(cur.kind))
    /\ cur.ok => cur.tip = NoneStr
    /\ \A i \in DOMAIN log :
          /\ (log[i].ev # "remove" /\ ~log[i].ok /\ log[i].tip # NoneStr)
             => /\ log[i].kind \in {"NotFound", "IsADirectory", "DirectoryNotEmpty"}
                /\ log[i].tip = TipOf(log[i].kind)
          /\ (log[i].ev = "remove" /\ log[i].res # "Ok")
             => /\ log[i].res \in ErrorKind
                /\ log[i].info = NoneStr

\* The walk of d/. under --recursive --force has ended with the remover's
\* error Unknown, which carries no tip.
C23_Witness ==
    /\ args.recursive /\ args.force /\ ~args.trash
    /\ WalkEnded /\ start.path = <<"d", ".">>
    /\ log[Len(log)].ev = "remove" /\ log[Len(log)].res = "Unknown"
    /\ log[Len(log)].info = NoneStr

\* The present operand is walked by walk::given.
GivenWalk == start.path # << >> /\ (~args.recursive \/ args.trash)

\* What fs::open made of the present operand, marked visited and run
\* through the transformers before the question.
GivenResult ==
    Fold(SubSeq(Transformers(args), 1, 4), start.fs, into_visited(open(start.fs, start.path)))

\* C24: walk::given opens the operand once and gives one outcome for it,
\* whatever it names (file, directory empty or not, symbolic link,
\* nothing): the walk lists nothing and has events for the operand only,
\* all after the opening marked visited; it ends with exactly one outcome,
\* yielded or skipped, which is the result of fs::open run through the
\* transformers (skipped by the user's answer where a question is asked).
C24_GivenYieldsOne ==
    GivenWalk
    => /\ stack = << >>
       /\ log[1] = Ev("open", open(start.fs, start.path), NoneStr, NoneStr)
       /\ \A i \in DOMAIN log :
             /\ log[i].path = start.path
             /\ log[i].ev \in {"open", "prompt", "skip", "yield", "remove"}
             /\ i > 1 => log[i].visited
             /\ (i > 1 /\ log[i].ev # "remove")
                => /\ log[i].ok = GivenResult.ok /\ log[i].kind = GivenResult.kind
                   /\ log[i].tip = GivenResult.tip
             /\ i > 1 => Cardinality({ j \in DOMAIN log : log[j].ev = log[i].ev }) = 1
       /\ Cardinality(Yields) + Cardinality(Skips) <= 1
       /\ WalkEnded => Cardinality(Yields) + Cardinality(Skips) = 1
       /\ \A n \in Nodes : (n # Node(start.path) /\ ~args.trash) => fs[n] = start.fs[n]

\* The walk of the directory d by walk::given under --dir has ended with
\* the one outcome DirectoryNotEmpty, and nothing below d was looked at.
C24_Witness ==
    /\ args.dir /\ args.force
    /\ WalkEnded /\ start.path = <<"d">>
    /\ Len(log) = 2
    /\ log[2].ev = "yield" /\ log[2].visited /\ log[2].kind = "DirectoryNotEmpty"
    /\ fs = start.fs

Opens == { i \in DOMAIN log : log[i].ev = "open" }

\* C25: fs::open gives an entry of the kind of the object the path names,
\* a symbolic link being a Symlink whatever it points to and whether that
\* exists or not, and the error NotFound where the path names nothing; a
\* path the remover has removed names nothing when it is opened again.
C25_OpenRoundTrip ==
    /\ \A i \in Opens :
          LET n == Node(log[i].path) IN
          /\ n \in Nodes
          /\ log[i].ok <=> start.fs[n] # "None"
          /\ log[i].ok => log[i].kind = start.fs[n]
          /\ ~log[i].ok => log[i].kind = "NotFound"
    /\ \A j \in Removes :
          (log[j].res = "Ok" /\ ~dry_run(args))
          => /\ ~open(fs, log[j].path).ok
             /\ open(fs, log[j].path).kind = "NotFound"
    /\ (pc = "pull" /\ stack = << >> /\ paths # << >> /\ Node(Head(paths)) \in Nodes)
       => LET o == open(fs, Head(paths)) IN
          IF fs[Node(Head(paths))] = "None"
          THEN ~o.ok /\ o.kind = "NotFound"
          ELSE o.ok /\ o.kind = fs[Node(Head(paths))]

\* Under --force the link l was opened as a Symlink and removed, its
\* target d left in place, and now l, opened again, is not found.
C25_Witness ==
    /\ args.force /\ ~args.trash /\ ~args.blind
    /\ start.path = <<"l">> /\ WalkEnded
    /\ start.fs[<<"l">>] = "None" /\ start.fs[<<"d">>] = "Dir"
    /\ log[1].ev = "open" /\ ~log[1].ok /\ log[1].kind = "NotFound"
    /\ start.removed = 1

\* The present operand is a directory that holds something, given with
\* --trash and --recursive.
TrashedDir ==
    /\ start.path # << >> /\ args.trash /\ args.recursive
    /\ Node(start.path) \in Nodes
    /\ start.fs[Node(start.path)] = "Dir"
    /\ Children(start.fs, Node(start.path)) # {}

\* C26: with --trash, --recursive does not descend. The walk of a
\* directory that holds something lists nothing and has events for the
\* directory only, never for a child; it gives one outcome. In a dry run
\* an admitted directory is reported as "Would move to trash" and nothing
\* changes; otherwise it is disposed of as a whole, with all it holds. A
\* run with --interactive asks at most one question, "Remove directory",
\* and exactly one for an admitted directory.
C26_TrashDoesNotDescend ==
    TrashedDir
    => /\ stack = << >>
       /\ \A i \in DOMAIN log : log[i].path = start.path /\ log[i].ev # "descend"
       /\ Cardinality(Yields) + Cardinality(Skips) <= 1
       /\ Cardinality(Removes) <= 1
       /\ WalkEnded => Cardinality(Yields) + Cardinality(Skips) = 1
       /\ \A j \in Removes :
             /\ dry_run(args) => (log[j].res = "Ok" /\ log[j].info = "Would move to trash"
                                  /\ fs = start.fs)
             /\ (~dry_run(args) /\ log[j].res = "Ok")
                => /\ log[j].info = "Moved to trash"
                   /\ \A n \in Tree(start.fs, start.path) : fs[n] = "None"
       /\ Cardinality(Prompts) <= 1
       /\ \A i \in Prompts : args.interactive /\ log[i].info = "Remove directory"
       /\ (args.interactive /\ WalkEnded /\ GivenResult.ok) => Cardinality(Prompts) = 1

\* Under --trash --recursive --interactive the directory d was asked about
\* once, "Remove directory", and moved to the trash with all it held.
C26_Witness ==
    /\ args.trash /\ args.recursive /\ args.interactive
    /\ start.path = <<"d">> /\ WalkEnded /\ TrashedDir
    /\ Len(log) = 4
    /\ log[2].ev = "prompt" /\ log[2].info = "Remove directory"
    /\ log[4].ev = "remove" /\ log[4].res = "Ok" /\ log[4].info = "Moved to trash"
    /\ \A n \in Tree(start.fs, <<"d">>) : fs[n] = "None"
    /\ removed = start.removed + 1

Descends == { i \in DOMAIN log : log[i].ev = "descend" }

\* C30: every result the walk yields is consumed once. An entry yielded is
\* followed at once by the one call of the remover for it, an error
\* yielded by none, and the remover is called for nothing else; in the
\* walk of one operand no object goes to the remover twice; of a directory
\* descended into, the result of the first visit is not yielded, and only
\* the result of the second visit, made after what it holds, goes to the
\* remover.
C30_ConsumedOnce ==
    /\ \A i \in Yields :
          IF log[i].ok
          THEN /\ i + 1 \in Removes
               /\ log[i + 1].path = log[i].path
               /\ log[i + 1].kind = log[i].kind
               /\ log[i + 1].visited = log[i].visited
          ELSE i + 1 \notin Removes
    /\ \A j \in Removes : j - 1 \in Yields /\ log[j - 1].ok
    /\ \A i, j \in Removes : Node(log[i].path) = Node(log[j].path) => i = j
    /\ \A i, j \in Yields : Node(log[i].path) = Node(log[j].path) => i = j
    /\ \A k \in Descends :
          /\ \A i \in Yields \cup Removes :
                log[i].path = log[k].path => (log[i].visited /\ i > k)
          /\ \A i \in Yields \cup Removes :
                (log[i].path = log[k].path)
                => \A c \in Yields \cup Removes : Under(log[k].path, log[c].path) => c < i
    /\ removed + errored = start.removed + start.errored + Cardinality(Yields)

\* The walk of d under --recursive --force has ended: d and d/e were
\* descended into, and each of the four objects went to the remover once.
C30_Witness ==
    /\ args.recursive /\ args.force /\ ~args.trash
    /\ start.path = <<"d">> /\ WalkEnded
    /\ Cardinality(Descends) = 2
    /\ Cardinality(Removes) = 4
    /\ \A n \in Tree(start.fs, <<"d">>) :
          Cardinality({ j \in Removes : Node(log[j].path) = n }) = 1
    /\ \A n \in Tree(start.fs, <<"d">>) : fs[n] = "None"

\* Every command line under every environment, with one operand.
InitCli ==
    /\ argv \in CommandLines
    /\ env \in Vars
    /\ args = argv
    /\ max_level = "Off"
    /\ ext = 0
    /\ vis = NoVisit
    /\ paths \in { <<p>> : p \in Operands }
    /\ fs = InitFS
    /\ stack = << >>
    /\ pc = "parse"
    /\ cur = NoItem
    /\ removed = 0
    /\ errored = 0
    /\ exit = NoneStr
    /\ last = NoResponse
    /\ start = [path |-> << >>, fs |-> fs, removed |-> 0, errored |-> 0]
    /\ kept = [on |-> FALSE, ever |-> {}, live |-> {}]
    /\ hist = NoHist
    /\ log = << >>

SpecCli == InitCli /\ [][Next]_vars

\* C28: in GNU mode a command line clap accepts is a usage error if it
\* gives blind, quiet or trash without force; otherwise cli::run gets blind
\* as force was given, force as interactive was not given, quiet on, trash
\* off, and dir, recursive and interactive as they were given.
C28_GnuMode ==
    (env.gnu_mode /\ pc # "parse" /\ try_parse_from(argv))
    => IF ~argv.force /\ (argv.blind \/ argv.quiet \/ argv.trash)
       THEN exit = "Usage" /\ pc = "done" /\ log = << >> /\ fs = InitFS
       ELSE /\ exit # "Usage"
            /\ args.blind = argv.force
            /\ args.force = ~argv.interactive
            /\ args.quiet
            /\ ~args.trash
            /\ args.dir = argv.dir
            /\ args.recursive = argv.recursive
            /\ args.interactive = argv.interactive
            /\ max_level = "Error"

\* In GNU mode rm --force --trash h has removed h for good, blindly and
\* quietly.
C28_Witness ==
    /\ env.gnu_mode /\ pc = "done"
    /\ argv.force /\ argv.trash /\ ~argv.blind /\ ~argv.quiet
    /\ args.blind /\ args.force /\ args.quiet /\ ~args.trash
    /\ max_level = "Error"
    /\ exit = "Ok" /\ removed = 1 /\ fs[<<"h">>] = "None"
    /\ log[Len(log)].info = "Removed"

\* The level filter lets a message of the level through.
Shown(level) ==
    CASE level = "Error" -> max_level \in {"Error", "Info", "Trace"}
      [] level = "Info" -> max_level \in {"Info", "Trace"}
      [] level = "Trace" -> max_level = "Trace"

\* C27: --quiet has an effect only with --force. Given without --force,
\* the messages of level Info (one for each entry dealt with, and the
\* final tally) are let through exactly as they are for the same command
\* line without --quiet; messages of level Error are always let through.
C27_QuietOnlyWithForce ==
    (pc # "parse" /\ exit # "Usage")
    => /\ Shown("Error")
       /\ (argv.quiet /\ ~argv.force)
          => LET without == parse_args([argv EXCEPT !.quiet = FALSE], env).args IN
             Shown("Info") <=> configure(Verbosity(without)) \in {"Info", "Trace"}

\* Another process changes the file system while the run is under way.
External ==
    /\ ext > 0
    /\ pc \in {"pull", "prompt", "expand", "emit"}
    /\ fs' \in ExternalChange(fs)
    /\ ext' = ext - 1
    /\ UNCHANGED <<argv, env, args, max_level, vis, paths, stack, pc, cur, removed, errored,
                   exit, last, start, kept, log, hist>>

NextExt ==
    \/ ParseArgs
    \/ NextOperand
    \/ NextChild
    \/ SecondVisit
    \/ Answer
    \/ Expand
    \/ Emit
    \/ Finish
    \/ External

\* The runs of rm on one operand, without --trash and with the root
\* preserved, with others at work on the file system.
InitExt ==
    /\ argv \in { a \in CommandLines :
                    ~a.quiet /\ ~a.verbose /\ ~a.trash /\ ~a.no_preserve_root }
    /\ env = [debug |-> FALSE, gnu_mode |-> FALSE]
    /\ args = argv
    /\ max_level = "Off"
    /\ ext = MaxExt
    /\ vis = NoVisit
    /\ paths \in { <<p>> : p \in Operands }
    /\ fs = InitFS
    /\ stack = << >>
    /\ pc = "parse"
    /\ cur = NoItem
    /\ removed = 0
    /\ errored = 0
    /\ exit = NoneStr
    /\ last = NoResponse
    /\ start = [path |-> << >>, fs |-> fs, removed |-> 0, errored |-> 0]
    /\ kept = [on |-> FALSE, ever |-> {}, live |-> {}]
    /\ hist = NoHist
    /\ log = << >>

SpecExt == InitExt /\ [][NextExt]_vars

\* C22: rm::remove on an entry whose object others have changed since it
\* was opened ends in an ordinary error: NotFound if nothing is there any
\* more, DirectoryNotEmpty if the directory holds something (and the
\* directory stays), Unknown if a directory has taken the place of a file
\* or link, or anything else the place of a directory. The error has no
\* tip, is counted as one error and changes nothing, and the walk goes on
\* with what is left of it.
C22_RacesAreErrors ==
    [][(pc = "emit" /\ pc' = "pull" /\ cur.ok /\ ~dry_run(args) /\ ~args.trash)
       => LET n == Node(cur.path)
              ev == LastEv
              failed == /\ ev.res # "Ok" /\ ev.info = NoneStr
                        /\ fs' = fs /\ errored' = errored + 1 /\ removed' = removed
                        /\ stack' = stack /\ paths' = paths
          IN  /\ ev.ev = "remove" /\ ev.path = cur.path
              /\ ev.res \in {"Ok", "NotFound", "DirectoryNotEmpty", "Unknown"}
              /\ fs[n] = "None" <=> ev.res = "NotFound"
              /\ (cur.kind = "Dir" /\ fs[n] = "Dir" /\ Children(fs, n) # {})
                 <=> ev.res = "DirectoryNotEmpty"
              /\ (fs[n] # "None" /\ (cur.kind = "Dir" <=> fs[n] # "Dir"))
                 <=> ev.res = "Unknown"
              /\ ev.res # "Ok" => failed
              /\ ev.res = "Ok" => (fs'[n] = "None" /\ removed' = removed + 1)
      ]_vars

\* Under --recursive --force d/f went away after it was opened: the
\* remover found nothing there, and the walk went on to remove d/e/g, d/e
\* and d; the run ends in failure with one error.
C22_Witness ==
    /\ argv.recursive /\ argv.force /\ ext = 0
    /\ start.path = <<"d">> /\ pc = "done" /\ exit = "Err"
    /\ errored = 1 /\ removed = 3
    /\ \E j \in Removes : log[j].path = <<"d", "f">> /\ log[j].res = "NotFound"
    /\ \E j \in Removes : log[j].path = <<"d">> /\ log[j].res = "Ok"
    /\ \A n \in Tree(start.fs, <<"d">>) : fs[n] = "None"

\* Under --recursive --force a file appeared in d/e after the walk had
\* emptied it: the remover found d/e and then d not empty and left both.
C22_WitnessGained ==
    /\ argv.recursive /\ argv.force /\ ext = 0
    /\ start.path = <<"d">> /\ pc = "done" /\ exit = "Err"
    /\ errored = 2
    /\ \E j \in Removes : log[j].path = <<"d", "e">> /\ log[j].res = "DirectoryNotEmpty"
    /\ \E j \in Removes : log[j].path = <<"d">> /\ log[j].res = "DirectoryNotEmpty"
    /\ fs[<<"d">>] = "Dir" /\ fs[<<"d", "e">>] = "Dir" /\ fs[<<"d", "e", "g">>] # "None"

\* Under --force a directory took the place of the file h after it was
\* opened: the remover failed with Unknown.
C22_WitnessUnknown ==
    /\ argv.force /\ ext = 0
    /\ start.path = <<"h">> /\ pc = "done" /\ exit = "Err"
    /\ log[Len(log)].ev = "remove" /\ log[Len(log)].kind = "File"
    /\ log[Len(log)].res = "Unknown"
    /\ fs[<<"h">>] = "Dir"

\* The transformers a call of walk::visit on its own is given.
StageNames ==
    {"identity", "transform_fixed", "transform_skip", "tip_not_found", "skip_not_found",
     "disallow_all_dirs"}

\* The items it is given: a file, two directories and a missing path as
\* walk::open makes them, and the same already skipped.
SampleItems ==
    LET opened == { open(InitFS, p) : p \in { <<"h">>, <<"d">>, <<"x">>, <<"m">> } }
    IN  opened \cup { into_skipped(i, "before") : i \in opened }

\* walk::visit called on its own, as its tests call it, after a run of rm
\* without operands.
InitVisit ==
    /\ vis \in [pc : {"call"}, ts : [1..5 -> StageNames], item : SampleItems,
                result : {None}, trace : {NoTrace}]
    /\ argv = [blind |-> FALSE, dir |-> FALSE, force |-> FALSE, interactive |-> FALSE,
               no_preserve_root |-> FALSE, quiet |-> FALSE, recursive |-> FALSE,
               trash |-> FALSE, verbose |-> FALSE]
    /\ env = [debug |-> FALSE, gnu_mode |-> FALSE]
    /\ args = argv
    /\ max_level = "Info"
    /\ ext = 0
    /\ paths = << >>
    /\ fs = InitFS
    /\ stack = << >>
    /\ pc = "done"
    /\ cur = NoItem
    /\ removed = 0
    /\ errored = 0
    /\ exit = "Ok"
    /\ last = NoResponse
    /\ start = [path |-> << >>, fs |-> fs, removed |-> 0, errored |-> 0]
    /\ kept = [on |-> FALSE, ever |-> {}, live |-> {}]
    /\ hist = NoHist
    /\ log = << >>

Visit ==
    /\ vis.pc = "call"
    /\ LET out == visit(vis.ts, fs, vis.item) IN
       vis' = [vis EXCEPT !.pc = "done", !.result = out.result, !.trace = out.trace]
    /\ UNCHANGED <<argv, env, args, max_level, ext, paths, fs, stack, pc, cur, removed,
                   errored, exit, last, start, kept, log, hist>>

SpecVisit == InitVisit /\ [][Visit]_vars

\* The positions of a list of transformers that do not hold the identity.
Acting(ts) == { k \in 1..5 : ts[k] # "identity" }

\* C29: walk::visit passes the item through the five transformers in
\* their order, each getting what the one before it gave, and none is
\* left out, whatever the item has become: the outcome is that of the
\* fifth applied to the fourth applied to ... the first applied to the
\* item. So one transformer that acts, at any of the five places among
\* identities, decides the outcome; a transformer that skips, at any
\* place, makes the outcome None whatever follows it; the trace of a
\* skipped item names the path the later transformers gave it; and the
\* identity changes no item.
C29_VisitComposes ==
    vis.pc = "done"
    => LET ts == vis.ts
           i1 == Transform(ts[1], fs, vis.item)
           i2 == Transform(ts[2], fs, i1)
           i3 == Transform(ts[3], fs, i2)
           i4 == Transform(ts[4], fs, i3)
           i5 == Transform(ts[5], fs, i4)
       IN  /\ i5.skip_reason = NoneStr
              => (vis.result = Some(Inner(i5)) /\ vis.trace = NoTrace)
           /\ i5.skip_reason # NoneStr
              => (vis.result = None /\ vis.trace = Skipped(i5.path, i5.skip_reason))
           /\ identity(vis.item) = vis.item
           /\ (Acting(ts) = {} /\ vis.item.skip_reason = NoneStr)
              => vis.result = Some(Inner(vis.item))
           /\ \A k \in 1..5 :
                 (Acting(ts) = {k} /\ vis.item.skip_reason = NoneStr)
                 => LET one == Transform(ts[k], fs, vis.item) IN
                    vis.result = IF one.skip_reason # NoneStr THEN None ELSE Some(Inner(one))
           /\ (\E k \in 1..5 : ts[k] = "transform_skip") => vis.result = None
           /\ (\E k \in 1..5 : ts[k] = "transform_fixed" /\ \A j \in k..5 : ts[j] # "skip_not_found")
              => (vis.result.some => vis.result = Some(Inner(transform_fixed(vis.item))))

\* visit was called on the file h with tip_not_found, three identities
\* and transform_fixed in the fifth place: the outcome is the fixed error.
C29_Witness ==
    /\ vis.pc = "done"
    /\ vis.ts = <<"tip_not_found", "identity", "identity", "identity", "transform_fixed">>
    /\ vis.item = open(InitFS, <<"h">>)
    /\ vis.result = Some([ok |-> FALSE, kind |-> "Unknown", path |-> <<"file">>, tip |-> NoneStr])
    /\ vis.trace = NoTrace

\* An open event was added to the log in this step.
Opened ==
    /\ log' # log /\ log' # << >>
    /\ \E i \in DOMAIN log' :
          /\ log'[i].ev = "open"
          /\ (i > Len(log) \/ log[i] # log'[i])

\* C31: the run is sequential and lazy. A path is opened only when
\* nothing is pending - no item visited, asked about, listed or handed to
\* the remover - and it is opened in the file system as all removals
\* before have left it; the remover works, and the tally grows, only in
\* the step that handles the one item yielded. So the same file given
\* twice with --force --blind is removed once and skipped as not found
\* once, with no error.
C31_SequentialLazy ==
    /\ [][Opened => /\ pc = "pull"
                    /\ \A i \in DOMAIN log' :
                          (log'[i].ev = "open" /\ (i > Len(log) \/ log[i] # log'[i]))
                          => log'[i] = Ev("open", open(fs, log'[i].path), NoneStr, NoneStr)
                    /\ fs' = fs /\ removed' = removed /\ errored' = errored]_vars
    /\ [][start' # start => (pc = "pull" /\ stack = << >> /\ start'.fs = fs
                             /\ start'.removed = removed /\ start'.errored = errored)]_vars
    /\ [][(fs' # fs \/ removed' # removed) => (pc = "emit" /\ pc' = "pull")]_vars
    /\ [](\A i \in Opens :
            log[i].ok <=> /\ Node(log[i].path) \in Nodes
                          /\ start.fs[Node(log[i].path)] # "None"
                          /\ ~\E j \in Removes :
                                /\ j < i /\ log[j].res = "Ok" /\ ~dry_run(args)
                                /\ IsPrefix(Node(log[j].path), Node(log[i].path)))
    /\ []((args.force /\ args.blind /\ WalkEnded /\ start.path = <<"h">>
           /\ start.fs[<<"h">>] = "None")
          => /\ Len(log) = 2
             /\ log[2].ev = "skip" /\ log[2].info = SKIP_REASON_NOT_FOUND
             /\ removed = start.removed /\ errored = start.errored)

\* rm --force --blind h h has ended: one removal, one skip as not found,
\* no error.
C31_Witness ==
    /\ args.force /\ args.blind /\ ~args.trash
    /\ pc = "done" /\ exit = "Ok"
    /\ start.path = <<"h">> /\ start.removed = 1
    /\ removed = 1 /\ errored = 0
    /\ Len(log) = 2 /\ ~log[1].ok /\ log[1].kind = "NotFound"
    /\ log[2].ev = "skip" /\ log[2].info = SKIP_REASON_NOT_FOUND
    /\ fs[<<"h">>] = "None"

\* The yields of a directory whose listing failed: a directory was opened
\* and admitted by the transformers of a recursive walk, and is yielded
\* as an error no transformer makes.
ListingFailed ==
    { i \in Yields :
        /\ Walk(args) = "recurse" /\ ~log[i].ok
        /\ log[i].kind \notin {"Refused", "IsADirectory", "DirectoryNotEmpty"}
        /\ \E k \in Opens : k < i /\ log[k].path = log[i].path /\ log[k].ok
                            /\ log[k].kind = "Dir" }

C33_SecondVisitNotRejected ==
    (args.recursive /\ pc # "parse" /\ exit # "Usage")
    => /\ Transformers(args)[4] = "identity"
       /\ ~(~cur.ok /\ cur.kind \in {"IsADirectory", "DirectoryNotEmpty"})
       /\ \A i \in DOMAIN log :
             /\ (log[i].ev # "remove")
                => ~(~log[i].ok /\ log[i].kind \in {"IsADirectory", "DirectoryNotEmpty"})
             /\ (log[i].ev = "remove") => log[i].res # "IsADirectory"
             /\ (log[i].visited /\ Walk(args) = "recurse" /\ log[i].ev \in {"yield", "skip", "prompt"})
                => /\ log[i].ok /\ log[i].kind = "Dir"
                   /\ \E k \in Descends : k < i /\ log[k].path = log[i].path

\* Under --recursive --interactive the child d/f of d was kept by the
\* user; the second visit of d gave an entry all the same, and it was the
\* remover that found d not empty.
C33_Witness ==
    /\ args.recursive /\ args.interactive /\ ~args.trash
    /\ start.path = <<"d">> /\ WalkEnded
    /\ \E i \in Skips : log[i].path = <<"d", "f">> /\ log[i].info = SKIP_REASON_ANSWER_NO
    /\ log[Len(log) - 1].ev = "yield" /\ log[Len(log) - 1].visited
    /\ log[Len(log) - 1].ok /\ log[Len(log) - 1].path = <<"d">>
    /\ log[Len(log)].ev = "remove" /\ log[Len(log)].res = "DirectoryNotEmpty"
    /\ fs[<<"d">>] = "Dir" /\ fs[<<"d", "f">>] = "File"

\* The file system with a link to its own parent: d/f is a symbolic link
\* to d.
LoopFS == [InitFS EXCEPT ![<<"d", "f">>] = "Symlink"]

\* The runs of rm on one operand, on either file system; the process goes
\* on as long as it has a step to take, and every question is answered by
\* a line or by the end of the input.
InitLive ==
    /\ argv \in { a \in CommandLines : ~a.quiet /\ ~a.verbose }
    /\ env = [debug |-> FALSE, gnu_mode |-> FALSE]
    /\ args = argv
    /\ max_level = "Off"
    /\ ext = 0
    /\ vis = NoVisit
    /\ paths \in { <<p>> : p \in Operands }
    /\ fs \in { InitFS, LoopFS }
    /\ stack = << >>
    /\ pc = "parse"
    /\ cur = NoItem
    /\ removed = 0
    /\ errored = 0
    /\ exit = NoneStr
    /\ last = NoResponse
    /\ start = [path |-> << >>, fs |-> fs, removed |-> 0, errored |-> 0]
    /\ kept = [on |-> FALSE, ever |-> {}, live |-> {}]
    /\ hist = NoHist
    /\ log = << >>

SpecLive == InitLive /\ [][Next]_vars /\ WF_vars(Next)

\* C34: every run ends, and the walk of an operand is finite: it opens
\* no object twice, descends only into what the operand's tree holds as a
\* directory and never into or through a symbolic link - also one that
\* points to the directory it lies in -, so it has no more events than
\* the tree allows.
C34_Terminates ==
    /\ <>(pc = "done")
    /\ [](\A i, j \in Opens : Node(log[i].path) = Node(log[j].path) => i = j)
    /\ [](\A k \in Descends :
            /\ log[k].kind = "Dir" /\ start.fs[Node(log[k].path)] = "Dir"
            /\ \A i \in Descends : log[i].path = log[k].path => i = k)
    /\ [](\A i \in DOMAIN log :
            /\ Node(log[i].path) \in Tree(start.fs, start.path)
            /\ start.fs[Node(log[i].path)] = "Symlink"
               => \A j \in DOMAIN log : ~Under(log[i].path, log[j].path))
    /\ [](Len(log) <= 5 * Cardinality(Nodes))

\* Under --recursive --force the walk of d, which holds the link d/f to d
\* itself, has ended and the run is over: the link was removed as a link
\* and d with it.
C34_Witness ==
    /\ args.recursive /\ args.force /\ ~args.trash
    /\ start.path = <<"d">> /\ start.fs = LoopFS
    /\ pc = "done" /\ exit = "Ok"
    /\ \E j \in Removes : log[j].path = <<"d", "f">> /\ log[j].kind = "Symlink" /\ log[j].res = "Ok"
    /\ Cardinality(Descends) = 2 /\ removed = 4
    /\ \A n \in Tree(start.fs, <<"d">>) : fs[n] = "None"

\* --------------------------------------------------------------- C35
\* The questions of new_prompt_for that ask for the removal of a directory.
RemovalQuestions == {"Remove empty directory", "Remove directory"}

\* The question last asked about the path of the event i of the walk, and
\* answered with yes (no skip follows the question).
AnsweredYes(i) ==
    { j \in Prompts :
        /\ j < i /\ log[j].path = log[i].path
        /\ ~(j + 1 \in Skips /\ log[j + 1].path = log[j].path)
        /\ \A k \in Prompts : (k < i /\ log[k].path = log[i].path) => k <= j }

\* C35: in an interactive recursive run a directory goes to the remover
\* only after a yes to a question that asks for its removal ("Remove empty
\* directory" or "Remove directory"); a yes to "Descend into directory"
\* alone does not send it there, whatever another process does to the
\* directory in the meantime.
C35_AskedBeforeRemoval ==
    (args.interactive /\ args.recursive /\ pc # "parse")
    => \A i \in Removes :
          log[i].kind = "Dir"
          => \E j \in AnsweredYes(i) : log[j].info \in RemovalQuestions

\* --------------------------------------------------------------- C36
\* The lines read_line gives for just Enter and at the end of the input.
EmptyLines == { <<"\n">>, << >> }

\* C36: in an interactive run an empty answer (just Enter) and the end of
\* the input never lead to a removal: the entry is skipped with
\* "Unrecognized input", the step changes neither the file system nor a
\* counter and the path is not handed to the remover later in the walk;
\* an entry goes on from its question only on a line that reads y or yes,
\* and every call of the remover follows a question answered that way.
C36_EmptyAnswerSkips ==
    /\ [][(last'.io = "ok" /\ last'.line \in EmptyLines)
            => /\ pc = "prompt" /\ pc' = "pull"
               /\ cur' = [cur EXCEPT !.skip_reason = "Unrecognized input"]
               /\ log' = Append(log, Ev("skip", cur, NoneStr, "Unrecognized input"))
               /\ fs' = fs /\ removed' = removed /\ errored' = errored]_vars
    /\ [][(pc = "prompt" /\ pc' \in {"expand", "emit"})
            => (last'.io = "ok" /\ last'.line \in YesLines /\ cur' = cur)]_vars
    /\ [](\A i \in Skips : log[i].info = "Unrecognized input"
            => \A j \in Removes : j > i => log[j].path # log[i].path)
    /\ [](\A i \in Removes : AnsweredYes(i) # {})

\* The input ended at the question for the file h of the second operand,
\* after a yes for the first operand d/f: h was skipped for unrecognized
\* input and is still there, the run removed d/f alone.
C36_Witness ==
    /\ last = [io |-> "ok", line |-> << >>]
    /\ cur.path = <<"h">> /\ cur.ok /\ cur.kind = "File"
    /\ cur.skip_reason = SKIP_REASON_ANSWER_UNKNOWN
    /\ log[Len(log)].ev = "skip" /\ log[Len(log)].info = "Unrecognized input"
    /\ pc = "pull" /\ paths = << >>
    /\ fs[<<"h">>] = "File" /\ fs[<<"d", "f">>] = "None"
    /\ removed = 1 /\ errored = 0

\* --------------------------------------------------------------- C37
\* The item b is the error a, but for its tip and its skip reason.
SameError(a, b) ==
    /\ ~b.ok /\ b.kind = a.kind /\ b.path = a.path /\ b.visited = a.visited
    /\ \E t \in {a.tip, TIP_IS_DIR, TIP_DIR_NOT_EMPTY, TIP_NOT_FOUND} :
       \E r \in {a.skip_reason, SKIP_REASON_NOT_FOUND} :
           b = [a EXCEPT !.tip = t, !.skip_reason = r]

\* The event of fs::open in the log the step leaves.
LastOpen ==
    CHOOSE i \in DOMAIN log' :
        log'[i].ev = "open" /\ \A j \in DOMAIN log' : log'[j].ev = "open" => j <= i

\* The item fs::open made in the step, as walk::given or walk::recurse
\* hands it to walk::visit, after the first k transformers of the run.
AfterStage(k) ==
    LET e == log'[LastOpen]
        o == Item(e.ok, e.kind, e.path, e.tip, NoneStr, Walk(args) = "given")
    IN  Fold(SubSeq(Transformers(args), 1, k), fs, o)

\* C37: an error stays an error. A transformer of the run that is given an
\* error gives back the same error (same kind, same path), with at most a
\* tip added or the item marked skipped; so a path whose fs::open failed
\* leaves walk::visit as that error, and no path yielded as an error
\* (failed resolution or refused by a policy) is handed to the remover:
\* the remover is called for entries only.
C37_ErrorsStay ==
    /\ [][Opened
            => \A k \in 1..5 :
                  \E a \in {AfterStage(k - 1)} :
                      ~a.ok => SameError(a, Transform(Transformers(args)[k], fs, a))]_vars
    /\ [][(Opened /\ ~log'[LastOpen].ok)
            => /\ ~cur'.ok /\ cur'.kind = log'[LastOpen].kind /\ cur'.path = log'[LastOpen].path
               /\ pc' \in {"pull", "expand", "emit"}
               /\ fs' = fs /\ removed' = removed]_vars
    /\ [](\A i \in Removes : log[i].ok /\ log[i].kind \in EntryKind)
    /\ [](\A i \in Yields : ~log[i].ok
            => /\ (i + 1 \in DOMAIN log => log[i + 1].ev # "remove")
               /\ \A j \in Removes : log[j].path # log[i].path)

\* rm --force d m: the directory d was refused (IsADirectory, with the tip
\* to use --dir) and is still there; the missing m was then opened as
\* NotFound, got its tip and was yielded as that error; nothing went to
\* the remover.
C37_Witness ==
    /\ args.force /\ ~args.dir /\ ~args.recursive /\ ~args.blind
    /\ pc = "pull" /\ paths = << >> /\ start.path = <<"m">>
    /\ fs[<<"d">>] = "Dir"
    /\ \E i \in Opens : log[i].path = <<"m">> /\ ~log[i].ok /\ log[i].kind = "NotFound"
                        /\ log[i].tip = NoneStr
    /\ \E i \in Yields : log[i].path = <<"m">> /\ ~log[i].ok /\ log[i].kind = "NotFound"
                         /\ log[i].tip = TIP_NOT_FOUND
    /\ Removes = {}
    /\ removed = 0 /\ errored = 2

\* --------------------------------------------------------------- C38
\* The node n lies below the node o, and every node from o down to the
\* parent of n is a directory in f.
RealDescendant(f, o, n) ==
    /\ Len(o) < Len(n) /\ IsPrefix(o, n)
    /\ \A k \in Len(o)..(Len(n) - 1) : f[SubSeq(n, 1, k)] = "Dir"

\* The original statement of C38: a step of the run changes only the
\* object the present operand names and, in a recursive run without
\* --trash, what lies below it through directories.
C38_OnlyOperandsAndListed ==
    [][\A n \in Nodes :
          fs'[n] # fs[n]
          => \/ n = Node(start.path)
             \/ /\ args.recursive /\ ~args.trash
                /\ RealDescendant(start.fs, Node(start.path), n)]_vars

\* C38 (amended): a run removes only operands and, in a recursive run,
\* what lies below an operand directory through real directories - without
\* --trash the objects the walk found by listing, one at a time, with
\* --trash all of it at once, moved to the trash with the operand. Every
\* other object is unchanged: what a symbolic link operand points to, any
\* other name of a file, and what a directory operand holds in a run that
\* is not recursive. Only the remover changes the file system, and never
\* in a dry run.
C38_Frame ==
    /\ [][\A n \in Nodes :
            fs'[n] # fs[n]
            => /\ fs'[n] = "None" /\ pc = "emit" /\ cur.ok /\ ~dry_run(args)
               /\ \/ n = Node(start.path)
                  \/ /\ args.recursive
                     /\ RealDescendant(start.fs, Node(start.path), n)
               /\ ~args.trash => n = Node(cur.path)
               /\ args.trash => (cur.path = start.path /\ IsPrefix(Node(cur.path), n))]_vars
    /\ [](\A i \in DOMAIN stack :
            /\ stack[i].dir.kind = "Dir" /\ start.fs[Node(stack[i].dir.path)] = "Dir"
            /\ args.recursive /\ ~args.trash
            /\ \A j \in DOMAIN stack[i].todo :
                  stack[i].todo[j] = Append(stack[i].dir.path, stack[i].todo[j][Len(stack[i].todo[j])]))
    /\ [](pc \in {"prompt", "expand", "emit"}
            => \/ cur.path = start.path
               \/ /\ stack # << >>
                  /\ cur.path = stack[Len(stack)].dir.path
                       \o <<cur.path[Len(cur.path)]>>)

\* rm --recursive --force l x has ended: the symbolic link l and the
\* directory x are gone, and the directory d that l pointed to is there
\* with all it held.
C38_Witness ==
    /\ pc = "done" /\ exit = "Ok"
    /\ args.recursive /\ args.force /\ ~args.trash
    /\ start.path = <<"x">> /\ removed = 2 /\ errored = 0
    /\ fs[<<"l">>] = "None" /\ fs[<<"x">>] = "None"
    /\ \A n \in Nodes \ { <<"l">>, <<"x">> } : fs[n] = InitFS[n]

\* --------------------------------------------------------------- C39
\* A dry run, with the outcomes recorded, of a command line that the user
\* then gives again with --force.
InitPair ==
    /\ argv \in { a \in CommandLines : ~a.force /\ ~a.interactive /\ ~a.quiet /\ ~a.verbose }
    /\ env = [debug |-> FALSE, gnu_mode |-> FALSE]
    /\ args = argv
    /\ max_level = "Off"
    /\ ext = 0
    /\ vis = NoVisit
    /\ \/ /\ paths \in SeqsUpTo(Operands, MaxOperands)
          /\ ~argv.no_preserve_root
          /\ fs = InitFS
       \/ /\ paths \in { <<p>> : p \in DangerousOperands }
          /\ fs = IF Node(paths[1]) = RootNode THEN RootFS ELSE InitFS
    /\ stack = << >>
    /\ pc = "parse"
    /\ cur = NoItem
    /\ removed = 0
    /\ errored = 0
    /\ exit = NoneStr
    /\ last = NoResponse
    /\ start = [path |-> << >>, fs |-> fs, removed |-> 0, errored |-> 0]
    /\ kept = [on |-> FALSE, ever |-> {}, live |-> {}]
    /\ hist = [on |-> TRUE, again |-> FALSE, paths |-> paths, fs |-> fs,
               out |-> << >>, listed |-> << >>, before |-> NoRun]
    /\ log = << >>

\* The process has ended; the same command line is run again, now with
\* --force, on the file system the first run started on.
Rerun ==
    /\ pc = "done" /\ hist.on /\ ~hist.again
    /\ argv' = [argv EXCEPT !.force = TRUE]
    /\ args' = argv'
    /\ max_level' = "Off"
    /\ paths' = hist.paths
    /\ fs' = hist.fs
    /\ stack' = << >>
    /\ pc' = "parse"
    /\ cur' = NoItem
    /\ removed' = 0
    /\ errored' = 0
    /\ exit' = NoneStr
    /\ last' = NoResponse
    /\ start' = [path |-> << >>, fs |-> hist.fs, removed |-> 0, errored |-> 0]
    /\ log' = << >>
    /\ hist' = [hist EXCEPT !.again = TRUE, !.out = << >>, !.listed = << >>,
                            !.before = [out |-> hist.out, listed |-> hist.listed,
                                        removed |-> removed, errored |-> errored,
                                        exit |-> exit]]
    /\ UNCHANGED <<env, ext, vis, kept>>

NextPair ==
    \/ ParseArgs
    \/ NextOperand
    \/ NextChild
    \/ SecondVisit
    \/ Expand
    \/ Emit
    \/ Finish
    \/ Rerun

SpecPair == InitPair /\ [][NextPair]_vars

\* The operands name different objects, none of which lies in another.
Independent(ps) ==
    \A i, j \in DOMAIN ps : i # j => ~IsPrefix(Node(ps[i]), Node(ps[j]))

\* The two runs got the names of a directory in the same order wherever
\* both listed it.
SameOrders ==
    \A i \in DOMAIN hist.listed : \A j \in DOMAIN hist.before.listed :
        LET a == hist.listed[i]
            b == hist.before.listed[j]
        IN  { a[k] : k \in DOMAIN a } = { b[k] : k \in DOMAIN b } => a = b

\* The original statement of C39: for operands that name different objects
\* none of which lies in another, with nobody else changing the file
\* system and no failure of the operating system in a removal, the dry run
\* and the run with --force give the same outcomes, counters and result.
C39_DryMatchesForce ==
    (/\ hist.on /\ hist.again /\ pc = "done"
     /\ Independent(hist.paths)
     /\ \A i \in DOMAIN hist.out : ~hist.out[i].os
     /\ SameOrders)
    => /\ hist.out = hist.before.out
       /\ removed = hist.before.removed
       /\ errored = hist.before.errored
       /\ exit = hist.before.exit

\* C39 (amended): for operands that name different objects none of which
\* lies in another, with nobody else changing the file system and no
\* failure of the remover in the run with --force - neither a failure of
\* the operating system nor the trash refusing the root - the dry run and
\* the run with --force of the same command line on the same file system
\* give the same outcomes (the same paths in the same order, the same
\* error kinds and tips), the same two counters and the same result; the
\* dry run leaves the file system as it found it.
C39_DryMatchesForceUnlessRemoverFails ==
    /\ (hist.on /\ ~hist.again) => fs = hist.fs
    /\ (/\ hist.on /\ hist.again /\ pc = "done"
        /\ Independent(hist.paths)
        /\ \A i \in DOMAIN hist.out : ~hist.out[i].os /\ ~hist.out[i].refusal
        /\ SameOrders)
       => /\ hist.out = hist.before.out
          /\ removed = hist.before.removed
          /\ errored = hist.before.errored
          /\ exit = hist.before.exit

\* rm --recursive d m and then rm --recursive --force d m have ended: both
\* gave five outcomes, four for the tree of d from the bottom up and the
\* error NotFound with its tip for m; the second run removed the tree.
C39_Witness ==
    /\ hist.on /\ hist.again /\ pc = "done"
    /\ args.recursive /\ args.force /\ ~args.trash /\ ~args.blind
    /\ hist.paths = << <<"d">>, <<"m">> >>
    /\ Len(hist.out) = 5 /\ hist.out = hist.before.out
    /\ hist.out[4].path = <<"d">> /\ hist.out[4].ok
    /\ hist.out[5] = [path |-> <<"m">>, ok |-> FALSE, kind |-> "NotFound",
                      tip |-> TIP_NOT_FOUND, os |-> FALSE, refusal |-> FALSE]
    /\ Len(hist.listed) = 2 /\ hist.listed = hist.before.listed
    /\ removed = 4 /\ errored = 1 /\ exit = "Err"
    /\ hist.before.removed = 4 /\ hist.before.errored = 1
    /\ \A n \in Tree(InitFS, <<"d">>) : fs[n] = "None" /\ hist.fs[n] # "None"

====
